---- MODULE Spec2Model ----
(***************************************************************************)
(* The wrapped config tree of cfgtools (src/src/cfgtools/basic.py):        *)
(* BasicWrapper / DictBasicWrapper / ListBasicWrapper objects live in a    *)
(* heap, every object carries its edit status and its replaced value, and  *)
(* the mutators __setitem__, __delitem__, append, extend, copy and the     *)
(* constructor are the actions.                                            *)
(*                                                                         *)
(* Plain (unwrapped) values are tagged tuples:                             *)
(*    <<"s", i>>                     a scalar (an int)                     *)
(*    <<"l", <<v1, ..., vn>>>>       a list of plain values                *)
(*    <<"d", <<<<k1, v1>>, ...>>>>   a dict, in insertion order            *)
(* An argument that is already a wrapper object is <<"node", id>>.         *)
(* Scalars are ints: valid_types, empty in the base class (basic.py:60),   *)
(* is taken to admit int, as every concrete wrapper family sets it         *)
(* (iowrapper.py:71, templatelib.py:61).                                   *)
(* Strings produced by repr() are sequences of one-character strings, so   *)
(* that len() and concatenation are the real ones.                         *)
(***************************************************************************)
EXTENDS Integers, Sequences, FiniteSets, TLC

VARIABLES
    heap,     \* the wrapper objects, by identity 1..Len(heap)
    last,     \* the last call: method, self, arguments, exception, result
    prev,     \* the heap before the last call
    last2,    \* the call before the last one
    prev2,    \* the heap before that call
    used,     \* the methods called so far
    copies,   \* the pairs <<original, copy>> made by copy()
    nops,     \* the number of calls so far
    disk,     \* the files opened for writing, in order
    scope,    \* the `with` block of the ConfigIOWrapper
    calls,    \* the calls of converted flag predicates, in order
    max_line_width   \* the module variable MAX_LINE_WIDTH

vars ==
    <<heap, last, prev, last2, prev2, used, copies, nops, disk, scope, calls,
      max_line_width>>

\* ---------------------------------------------------------------- bounds
MaxNodes == 6

MaxOps == 2

\* ------------------------------------------------------- program constants
MAX_LINE_WIDTH == 88

\* ------------------------------------------------------------ input values
DictKeys == {"a", "b"}

ListKeys == {-1, 2}

S(i) == <<"s", i>>

L(vs) == <<"l", vs>>

D(kvs) == <<"d", kvs>>

\* a value of a type the wrappers reject (a set)
X == <<"x", 0>>

\* a key that is hashable but of no valid type: the tuple (1, 2)
TupleKey == "(1, 2)"

\* the class of a key
KeyType(k) == IF k = TupleKey THEN "tuple" ELSE "str"

\* the classes valid_types admits
valid_types == {"str", "int", "float", "bool", "NoneType"}

InitValues ==
    { D(<< <<"a", L(<<S(1)>>)>> >>),
      L(<<D(<< <<"a", S(1)>> >>), D(<<>>)>>) }

PlainValues == { S(2), L(<<S(1)>>), D(<< <<"a", S(1)>> >>) }

PlainLists == { <<>>, <<S(1), S(2)>> }

IsNode(x) == x[1] = "node"

RECURSIVE Size(_)
RECURSIVE SizeAll(_)
\* number of wrapper objects the constructor creates for a plain value
Size(v) ==
    CASE v[1] = "s" -> 1
      [] v[1] = "l" -> 1 + SizeAll(v[2])
      [] v[1] = "d" -> 1 + SizeAll([i \in 1..Len(v[2]) |-> v[2][i][2]])

SizeAll(vs) == IF vs = <<>> THEN 0 ELSE Size(Head(vs)) + SizeAll(Tail(vs))

RECURSIVE invalid_type(_)
\* the constructor raises TypeError on a plain value: `invalid type of
\* data` from __new__, `invalid type of key` from DictBasicWrapper.__init__,
\* at any depth
invalid_type(v) ==
    CASE v[1] = "s" -> FALSE
      [] v[1] = "l" -> \E i \in 1..Len(v[2]) : invalid_type(v[2][i])
      [] v[1] = "d" -> \E i \in 1..Len(v[2]) :
                          \/ KeyType(v[2][i][1]) \notin valid_types
                          \/ invalid_type(v[2][i][2])
      [] OTHER -> TRUE

\* ------------------------------------------------------------------- heap
\* One wrapper object.  cls is the class chosen by __new__; obj, dobj and
\* lobj are the three name-mangled attributes _BasicWrapper__obj,
\* _DictBasicWrapper__obj and _ListBasicWrapper__obj.
NewNode(cls, obj, dobj, lobj) ==
    [cls |-> cls, status |-> "", replaced_value |-> 0,
     obj |-> obj, dobj |-> dobj, lobj |-> lobj]

Nodes(h) == 1..Len(h)

RECURSIVE constructor(_, _)
RECURSIVE WrapAll(_, _)
\* BasicWrapper.__new__ + __init__ on a plain value: the object itself is
\* created first, then its children in order.
constructor(h, v) ==
    LET id == Len(h) + 1 IN
    CASE v[1] = "s" ->
           [h |-> Append(h, NewNode("Basic", v[2], <<>>, <<>>)), id |-> id]
      [] v[1] = "l" ->
           LET r == WrapAll(Append(h, NewNode("List", 0, <<>>, <<>>)), v[2])
           IN  [h |-> [r.h EXCEPT ![id].lobj = r.ids], id |-> id]
      [] v[1] = "d" ->
           LET kvs == v[2]
               r == WrapAll(Append(h, NewNode("Dict", 0, <<>>, <<>>)),
                            [i \in 1..Len(kvs) |-> kvs[i][2]])
           IN  [h |-> [r.h EXCEPT ![id].dobj =
                          [i \in 1..Len(kvs) |-> <<kvs[i][1], r.ids[i]>>]],
                id |-> id]

WrapAll(h, vs) ==
    IF vs = <<>> THEN [h |-> h, ids |-> <<>>]
    ELSE LET r == constructor(h, Head(vs))
             rest == WrapAll(r.h, Tail(vs))
         IN  [h |-> rest.h, ids |-> <<r.id>> \o rest.ids]

\* ---------------------------------------------------------- status methods
mark_as_deleted(h, self) == [h EXCEPT ![self].status = "d"]

mark_as_added(h, self) == [h EXCEPT ![self].status = "a"]

mark_as_replaced(h, self, value) ==
    LET h1 == [h EXCEPT ![self].status = "r"]
        h2 == mark_as_deleted(h1, value)
    IN  [h2 EXCEPT ![self].replaced_value = value]

is_deleted(h, self) == h[self].status = "d"

is_present(h, self) == h[self].status # "d"

replaced_value(h, self) ==
    IF h[self].status = "r" THEN h[self].replaced_value ELSE 0

\* ------------------------------------------------------------ containers
\* the objects physically stored in a container, in order
Stored(h, n) ==
    CASE h[n].cls = "Dict" -> [i \in 1..Len(h[n].dobj) |-> h[n].dobj[i][2]]
      [] h[n].cls = "List" -> h[n].lobj
      [] OTHER -> <<>>

Range(s) == { s[i] : i \in 1..Len(s) }

Children(h, n) == Range(Stored(h, n))

\* position of key in a dict's items, 0 when the key is not stored
KeyPos(items, key) ==
    IF \E i \in 1..Len(items) : items[i][1] = key
    THEN CHOOSE i \in 1..Len(items) : items[i][1] = key
    ELSE 0

\* objects reachable from n through stored children (n included)
RECURSIVE Closure(_, _, _)
Closure(h, front, seen) ==
    IF front \subseteq seen THEN seen
    ELSE Closure(h, UNION { Children(h, x) : x \in front } , seen \cup front)

Desc(h, n) == Closure(h, {n}, {})

\* DictBasicWrapper.unwrap_top_level / ListBasicWrapper.unwrap_top_level
Dict_unwrap_top_level(h, self) ==
    LET Present(kv) == is_present(h, kv[2]) IN SelectSeq(h[self].dobj, Present)

\* variant: the deleted elements are not filtered out
List_unwrap_top_level_all(h, self) == h[self].lobj

List_unwrap_top_level(h, self) ==
    LET Present(x) == is_present(h, x) IN SelectSeq(h[self].lobj, Present)

RECURSIVE unwrap(_, _)
RECURSIVE unwrap_elements(_, _)
RECURSIVE unwrap_items(_, _)
unwrap(h, self) ==
    CASE h[self].cls = "Basic" -> S(h[self].obj)
      [] h[self].cls = "List" ->
           L(unwrap_elements(h, List_unwrap_top_level(h, self)))
      [] h[self].cls = "Dict" ->
           D(unwrap_items(h, Dict_unwrap_top_level(h, self)))

\* [x.unwrap() for x in self]
unwrap_elements(h, ids) ==
    IF ids = <<>> THEN <<>>
    ELSE <<unwrap(h, Head(ids))>> \o unwrap_elements(h, Tail(ids))

\* {k: v.unwrap() for k, v in self.items()}
unwrap_items(h, kvs) ==
    IF kvs = <<>> THEN <<>>
    ELSE << <<Head(kvs)[1], unwrap(h, Head(kvs)[2])>> >>
           \o unwrap_items(h, Tail(kvs))

\* ------------------------------------------------------------- equality
RECURSIVE PyEq(_, _)
\* Python's == on plain values: lists compare in order, dicts by key
PyEq(a, b) ==
    IF a[1] # b[1] THEN FALSE
    ELSE CASE a[1] = "s" -> a[2] = b[2]
           [] a[1] = "l" ->
                /\ Len(a[2]) = Len(b[2])
                /\ \A i \in 1..Len(a[2]) : PyEq(a[2][i], b[2][i])
           [] a[1] = "d" ->
                /\ Len(a[2]) = Len(b[2])
                /\ \A i \in 1..Len(a[2]) :
                      \E j \in 1..Len(b[2]) :
                          /\ a[2][i][1] = b[2][j][1]
                          /\ PyEq(a[2][i][2], b[2][j][2])

\* isinstance(value, self.__class__) for wrapper objects of this family
isinstance(h, value, self) ==
    \/ h[self].cls = "Basic"
    \/ h[value].cls = h[self].cls

\* variant: equality compares everything stored, deleted entries included
RECURSIVE unwrap_stored(_, _)
unwrap_stored(h, self) ==
    CASE h[self].cls = "Basic" -> S(h[self].obj)
      [] h[self].cls = "List" ->
           L([i \in 1..Len(h[self].lobj) |-> unwrap_stored(h, h[self].lobj[i])])
      [] h[self].cls = "Dict" ->
           D([i \in 1..Len(h[self].dobj) |->
                 <<h[self].dobj[i][1], unwrap_stored(h, h[self].dobj[i][2])>>])

BasicWrapper_eq_stored(h, self, value) ==
    /\ IsNode(value)
    /\ isinstance(h, value[2], self)
    /\ PyEq(unwrap_stored(h, self), unwrap_stored(h, value[2]))

\* BasicWrapper.__eq__; value is an argument (a wrapper object or plain)
BasicWrapper_eq(h, self, value) ==
    /\ IsNode(value)
    /\ isinstance(h, value[2], self)
    /\ PyEq(unwrap(h, self), unwrap(h, value[2]))

\* `key in self.__obj` of ListBasicWrapper.__setitem__: list membership
\* compares the key with every stored wrapper (identity, then ==)
List_key_in_obj(h, self, key) ==
    \E i \in 1..Len(h[self].lobj) :
        BasicWrapper_eq(h, h[self].lobj[i], S(key))

\* Python list indexing: 1-based position of index i, 0 when out of range
PyIndex(n, i) ==
    LET j == IF i < 0 THEN i + n ELSE i
    IN  IF j >= 0 /\ j < n THEN j + 1 ELSE 0

\* --------------------------------------------------------------- handlers
\* every handler returns the new heap, the exception raised ("" if none)
\* and the returned object (0 if none)
Result(h, exc, ret) == [h |-> h, exc |-> exc, ret |-> ret]

\* `if not isinstance(value, self.constructor): value = self.constructor(value)`
Wrapped(h, value) ==
    IF IsNode(value) THEN [h |-> h, id |-> value[2]] ELSE constructor(h, value)

Dict_getitem(h, self, key) ==
    LET pos == KeyPos(h[self].dobj, key) IN
    IF pos = 0 THEN Result(h, "KeyError", 0)
    ELSE IF is_deleted(h, h[self].dobj[pos][2]) THEN Result(h, "KeyError", 0)
    ELSE Result(h, "", h[self].dobj[pos][2])

\* variant: the child stored under the key is marked deleted before the
\* new value is wrapped
Dict_setitem_eager(h, self, key, value) ==
    LET pos0 == KeyPos(h[self].dobj, key)
        h0 == IF pos0 # 0 THEN mark_as_deleted(h, h[self].dobj[pos0][2]) ELSE h
    IN
    IF ~IsNode(value) /\ invalid_type(value) THEN Result(h0, "TypeError", 0)
    ELSE
    LET w == Wrapped(h, value)
        pos == KeyPos(w.h[self].dobj, key)
        h2 == IF pos # 0
              THEN mark_as_replaced(w.h, w.id, w.h[self].dobj[pos][2])
              ELSE mark_as_added(w.h, w.id)
        items == h2[self].dobj
    IN  Result([h2 EXCEPT ![self].dobj =
                   IF pos # 0 THEN [items EXCEPT ![pos] = <<key, w.id>>]
                   ELSE Append(items, <<key, w.id>>)], "", 0)

Dict_setitem(h, self, key, value) ==
    IF ~IsNode(value) /\ invalid_type(value) THEN Result(h, "TypeError", 0)
    ELSE
    LET w == Wrapped(h, value)
        pos == KeyPos(w.h[self].dobj, key)
        h2 == IF pos # 0
              THEN mark_as_replaced(w.h, w.id, w.h[self].dobj[pos][2])
              ELSE mark_as_added(w.h, w.id)
        items == h2[self].dobj
    IN  Result([h2 EXCEPT ![self].dobj =
                   IF pos # 0 THEN [items EXCEPT ![pos] = <<key, w.id>>]
                   ELSE Append(items, <<key, w.id>>)], "", 0)

\* variant: the entry is removed physically instead of being marked
Dict_delitem_hard(h, self, key) ==
    LET pos == KeyPos(h[self].dobj, key)
        Keep(kv) == kv[1] # key
    IN  IF pos = 0 THEN Result(h, "KeyError", 0)
        ELSE Result([h EXCEPT ![self].dobj = SelectSeq(@, Keep)], "", 0)

Dict_delitem(h, self, key) ==
    LET pos == KeyPos(h[self].dobj, key) IN
    IF pos = 0 THEN Result(h, "KeyError", 0)
    ELSE Result(mark_as_deleted(h, h[self].dobj[pos][2]), "", 0)

\* variant: membership looks at the stored keys only
Dict_contains_stored(h, self, key) == KeyPos(h[self].dobj, key) # 0

Dict_contains(h, self, key) ==
    LET pos == KeyPos(h[self].dobj, key) IN
    pos # 0 /\ is_present(h, h[self].dobj[pos][2])

\* variant: a deleted element is returned like any other
List_getitem_unchecked(h, self, key) ==
    LET pos == PyIndex(Len(h[self].lobj), key) IN
    IF pos = 0 THEN Result(h, "IndexError", 0)
    ELSE Result(h, "", h[self].lobj[pos])

List_getitem(h, self, key) ==
    LET pos == PyIndex(Len(h[self].lobj), key) IN
    IF pos = 0 THEN Result(h, "IndexError", 0)
    ELSE IF is_deleted(h, h[self].lobj[pos]) THEN Result(h, "KeyError", 0)
    ELSE Result(h, "", h[self].lobj[pos])

List_setitem(h, self, key, value) ==
    IF ~IsNode(value) /\ invalid_type(value) THEN Result(h, "TypeError", 0)
    ELSE
    LET w == Wrapped(h, value)
        pos == PyIndex(Len(w.h[self].lobj), key)
        h2 == IF List_key_in_obj(w.h, self, key)
              THEN mark_as_replaced(w.h, w.id, w.h[self].lobj[pos])
              ELSE mark_as_added(w.h, w.id)
    IN  IF pos = 0
        THEN Result(IF IsNode(value) THEN h2 ELSE h, "IndexError", 0)
        ELSE Result([h2 EXCEPT ![self].lobj[pos] = w.id], "", 0)

List_delitem(h, self, key) ==
    LET pos == PyIndex(Len(h[self].lobj), key) IN
    IF pos = 0 THEN Result(h, "IndexError", 0)
    ELSE Result(mark_as_deleted(h, h[self].lobj[pos]), "", 0)

RECURSIVE MarkAllAdded(_, _)
\* `for x in iterable: x.mark_as_added()`
MarkAllAdded(h, ids) ==
    IF ids = <<>> THEN h
    ELSE MarkAllAdded(mark_as_added(h, Head(ids)), Tail(ids))

\* variant: the appended object is not marked as added
List_append_unmarked(h, self, obj) ==
    LET w == Wrapped(h, obj)
    IN  Result([w.h EXCEPT ![self].lobj = Append(@, w.id)], "", 0)

List_append(h, self, obj) ==
    IF ~IsNode(obj) /\ invalid_type(obj) THEN Result(h, "TypeError", 0)
    ELSE
    LET w == Wrapped(h, obj)
        h2 == mark_as_added(w.h, w.id)
    IN  Result([h2 EXCEPT ![self].lobj = Append(@, w.id)], "", 0)

\* iterable is <<"node", id>> of a ListBasicWrapper, or <<"l", values>>;
\* the temporary wrapper built around a plain list is not kept
List_extend(h, self, iterable) ==
    IF ~IsNode(iterable) /\ (iterable[1] = "s" \/ invalid_type(iterable))
    THEN Result(h, "TypeError", 0)
    ELSE
    LET h1 == IF IsNode(iterable) THEN h ELSE WrapAll(h, iterable[2]).h
        ids == IF IsNode(iterable)
               THEN List_unwrap_top_level(h, iterable[2])
               ELSE WrapAll(h, iterable[2]).ids
        h2 == MarkAllAdded(h1, ids)
        again == IF IsNode(iterable)
                 THEN List_unwrap_top_level(h2, iterable[2])
                 ELSE ids
    IN  Result([h2 EXCEPT ![self].lobj = @ \o again], "", 0)

\* variant: a shallow copy, the new container shares the present children
copy_shallow(h, self) ==
    CASE h[self].cls = "Basic" ->
           Result(Append(h, NewNode("Basic", h[self].obj, <<>>, <<>>)),
                  "", Len(h) + 1)
      [] h[self].cls = "Dict" ->
           Result(Append(h, NewNode("Dict", 0, Dict_unwrap_top_level(h, self),
                                    <<>>)), "", Len(h) + 1)
      [] h[self].cls = "List" ->
           Result(Append(h, NewNode("List", 0, <<>>,
                                    List_unwrap_top_level(h, self))),
                  "", Len(h) + 1)

\* BasicWrapper.copy: constructor(self.unwrap())
copy(h, self) ==
    LET r == constructor(h, unwrap(h, self)) IN Result(r.h, "", r.id)

\* BasicWrapper(data) on plain data: a new tree, or TypeError
construct_plain(h, data) ==
    IF invalid_type(data) THEN Result(h, "TypeError", 0)
    ELSE LET r == constructor(h, data) IN Result(r.h, "", r.id)

\* BasicWrapper(data) where data is already a wrapper: __new__ returns
\* data, and Python then runs type(data).__init__(data, data) on it
BasicWrapper_init(h, self) ==
    [h EXCEPT ![self].status = "", ![self].replaced_value = 0]

construct(h, data) ==
    LET h1 == BasicWrapper_init(h, data) IN
    CASE h[data].cls = "Basic" -> Result(h1, "", data)
      [] h[data].cls = "Dict" ->
           Result([h1 EXCEPT ![data].dobj = Dict_unwrap_top_level(h1, data)],
                  "", data)
      [] h[data].cls = "List" ->
           Result([h1 EXCEPT ![data].lobj = List_unwrap_top_level(h1, data)],
                  "", data)

\* ------------------------------------------------------------------ views
\* the present children of a container, in order
PresentIds(h, self) ==
    CASE h[self].cls = "Dict" ->
           LET p == Dict_unwrap_top_level(h, self)
           IN  [i \in 1..Len(p) |-> p[i][2]]
      [] h[self].cls = "List" -> List_unwrap_top_level(h, self)
      [] OTHER -> <<>>

\* __len__: len(self.unwrap_top_level())
len(h, self) == Len(PresentIds(h, self))

\* DictBasicWrapper.keys / values / items
keys(h, self) ==
    LET p == Dict_unwrap_top_level(h, self) IN [i \in 1..Len(p) |-> p[i][1]]

values(h, self) == PresentIds(h, self)

items(h, self) == Dict_unwrap_top_level(h, self)

\* __iter__: a dict iterates its present keys, a list its present elements
iter(h, self) ==
    IF h[self].cls = "Dict" THEN keys(h, self) ELSE PresentIds(h, self)

\* ListBasicWrapper.__contains__: `value in self.unwrap_top_level()`
List_contains(h, self, value) ==
    \E i \in 1..Len(List_unwrap_top_level(h, self)) :
        LET x == List_unwrap_top_level(h, self)[i] IN
        \/ IsNode(value) /\ x = value[2]
        \/ BasicWrapper_eq(h, x, value)

\* position under which a dict key or a list index is stored, 0 if none
PosOf(h, self, key) ==
    CASE h[self].cls = "Dict" -> KeyPos(h[self].dobj, key)
      [] h[self].cls = "List" -> PyIndex(Len(h[self].lobj), key)
      [] OTHER -> 0

\* ---------------------------------------------------------------- repr
\* A string is a sequence of characters (ESC is one character).
Digits == <<"0", "1", "2", "3", "4", "5", "6", "7", "8", "9">>

RECURSIVE ReprNat(_)
ReprNat(n) ==
    IF n < 10 THEN <<Digits[n + 1]>>
    ELSE ReprNat(n \div 10) \o <<Digits[(n % 10) + 1]>>

\* repr() of an int
ReprInt(i) == IF i < 0 THEN <<"-">> \o ReprNat(0 - i) ELSE ReprNat(i)

\* repr() of a key: a one-character str, or the tuple (1, 2)
ReprKey(k) ==
    IF k = TupleKey THEN <<"(", "1", ",", " ", "2", ")">> ELSE <<"'", k, "'">>

RECURSIVE Join(_, _)
\* sep.join(strings)
Join(strings, sep) ==
    IF strings = <<>> THEN <<>>
    ELSE IF Len(strings) = 1 THEN strings[1]
    ELSE strings[1] \o sep \o Join(Tail(strings), sep)

RECURSIVE PyRepr(_)
\* Python's repr() of a plain value
PyRepr(v) ==
    CASE v[1] = "s" -> ReprInt(v[2])
      [] v[1] = "l" ->
           <<"[">> \o Join([i \in 1..Len(v[2]) |-> PyRepr(v[2][i])],
                           <<",", " ">>) \o <<"]">>
      [] v[1] = "d" ->
           <<"{">> \o Join([i \in 1..Len(v[2]) |->
                               ReprKey(v[2][i][1]) \o <<":", " ">>
                                   \o PyRepr(v[2][i][2])],
                           <<",", " ">>) \o <<"}">>

ESC == "ESC"

\* "\033[48;5;028m", "\033[48;5;088m" and "\033[0m"
GreenOn == <<ESC, "[", "4", "8", ";", "5", ";", "0", "2", "8", "m">>

RedOn == <<ESC, "[", "4", "8", ";", "5", ";", "0", "8", "8", "m">>

ColorOff == <<ESC, "[", "0", "m">>

colorful_console(string, status) ==
    CASE status = "" -> string
      [] status \in {"a", "r"} -> GreenOn \o string \o ColorOff
      [] status = "d" -> RedOn \o string \o ColorOff

\* variant: two spaces per level
sep_narrow(level) == [i \in 1..(2 * level) |-> " "]

RECURSIVE sep(_)
\* _sep(level): four spaces per level
sep(level) ==
    IF level = 0 THEN <<>> ELSE <<" ", " ", " ", " ">> \o sep(level - 1)

\* variant: the default width, whatever the module variable holds
get_max_line_width_default == MAX_LINE_WIDTH

\* get_max_line_width(): the current value of the module variable
get_max_line_width == max_line_width

RECURSIVE repr(_, _, _, _)
RECURSIVE repr_flat(_, _, _)
RECURSIVE Dict_repr_flat_loop(_, _, _, _)
RECURSIVE List_repr_flat_loop(_, _, _, _)
RECURSIVE Dict_repr_loop(_, _, _, _, _, _)
RECURSIVE List_repr_loop(_, _, _, _, _, _)

\* the change-view loop of DictBasicWrapper.repr_flat, from item i on
Dict_repr_flat_loop(h, self, i, acc) ==
    IF i > Len(h[self].dobj) THEN acc
    ELSE LET k == h[self].dobj[i][1]
             v == h[self].dobj[i][2]
             maxi == Len(h[self].dobj)
             status == IF is_deleted(h, v) THEN "d" ELSE ""
             key == ReprKey(k) \o <<":", " ">>
             f == repr_flat(h, v, TRUE)
             next ==
                 IF maxi <= 1
                 THEN [len |-> acc.len + Len(key) + f.len,
                       string |-> acc.string \o
                           colorful_console(key \o f.string, status)]
                 ELSE IF i - 1 = 0
                 THEN [len |-> acc.len + Len(key) + f.len + 1,
                       string |-> acc.string \o
                           colorful_console(key \o f.string \o <<",">>, status)]
                 ELSE IF i - 1 < maxi - 1
                 THEN [len |-> acc.len + Len(key) + f.len + 2,
                       string |-> acc.string \o
                           colorful_console(<<" ">> \o key \o f.string
                                                \o <<",">>, status)]
                 ELSE [len |-> acc.len + Len(key) + f.len + 1,
                       string |-> acc.string \o
                           colorful_console(<<" ">> \o key \o f.string, status)]
         IN  Dict_repr_flat_loop(h, self, i + 1, next)

\* the change-view loop of ListBasicWrapper.repr_flat, from element i on
List_repr_flat_loop(h, self, i, acc) ==
    IF i > Len(h[self].lobj) THEN acc
    ELSE LET x == h[self].lobj[i]
             maxi == Len(h[self].lobj)
             status == IF is_deleted(h, x) THEN "d" ELSE ""
             f == repr_flat(h, x, TRUE)
             next ==
                 IF maxi <= 1
                 THEN [len |-> acc.len + f.len,
                       string |-> acc.string \o
                           colorful_console(f.string, status)]
                 ELSE IF i - 1 = 0
                 THEN [len |-> acc.len + f.len + 1,
                       string |-> acc.string \o
                           colorful_console(f.string \o <<",">>, status)]
                 ELSE IF i - 1 < maxi - 1
                 THEN [len |-> acc.len + f.len + 2,
                       string |-> acc.string \o
                           colorful_console(<<" ">> \o f.string \o <<",">>,
                                            status)]
                 ELSE [len |-> acc.len + f.len + 1,
                       string |-> acc.string \o
                           colorful_console(<<" ">> \o f.string, status)]
         IN  List_repr_flat_loop(h, self, i + 1, next)

\* repr_flat(is_change_view) of the three classes: (length, string)
repr_flat(h, self, is_change_view) ==
    CASE h[self].cls = "Basic" ->
           LET string == ReprInt(h[self].obj)
           IN  [len |-> Len(string), string |-> string]
      [] h[self].cls = "Dict" ->
           IF ~is_change_view
           THEN LET string == PyRepr(unwrap(h, self))
                IN  [len |-> Len(string), string |-> string]
           ELSE LET r == Dict_repr_flat_loop(h, self, 1,
                                             [len |-> 0, string |-> <<>>])
                IN  [len |-> r.len, string |-> <<"{">> \o r.string \o <<"}">>]
      [] h[self].cls = "List" ->
           IF ~is_change_view
           THEN LET string == PyRepr(unwrap(h, self))
                IN  [len |-> Len(string), string |-> string]
           ELSE LET r == List_repr_flat_loop(h, self, 1,
                                             [len |-> 0, string |-> <<>>])
                IN  [len |-> r.len, string |-> <<"[">> \o r.string \o <<"]">>]

\* lines[-1] += tail
AddToLast(lines, tail) == [lines EXCEPT ![Len(lines)] = @ \o tail]

\* the multi-line loop of DictBasicWrapper.repr, from item i on
Dict_repr_loop(h, self, level, is_change_view, i, lines) ==
    IF i > Len(h[self].dobj) THEN lines
    ELSE LET k == h[self].dobj[i][1]
             v == h[self].dobj[i][2]
             seps == sep(level + 1)
             status == IF is_deleted(h, v) THEN "d" ELSE ""
             head == IF lines # <<>> THEN lines[Len(lines)] ELSE <<>>
             key == ReprKey(k) \o <<":", " ">>
             f == repr_flat(h, v, is_change_view)
             next ==
                 IF lines # <<>>
                    /\ Len(head) + Len(key) + f.len + 2 <= get_max_line_width
                 THEN AddToLast(lines,
                          colorful_console(<<" ">> \o key \o f.string
                                               \o <<",">>, status))
                 ELSE IF Len(seps) + Len(key) + f.len < get_max_line_width
                 THEN Append(lines,
                          colorful_console(seps \o key \o f.string \o <<",">>,
                                           status))
                 ELSE Append(lines,
                          colorful_console(
                              seps \o key
                                  \o repr(h, v, level + 1, is_change_view)
                                  \o <<",">>, status))
         IN  IF is_deleted(h, v) /\ ~is_change_view
             THEN Dict_repr_loop(h, self, level, is_change_view, i + 1, lines)
             ELSE Dict_repr_loop(h, self, level, is_change_view, i + 1, next)

\* the multi-line loop of ListBasicWrapper.repr, from element i on
List_repr_loop(h, self, level, is_change_view, i, lines) ==
    IF i > Len(h[self].lobj) THEN lines
    ELSE LET x == h[self].lobj[i]
             seps == sep(level + 1)
             status == IF is_deleted(h, x) THEN "d" ELSE ""
             head == IF lines # <<>> THEN lines[Len(lines)] ELSE <<>>
             f == repr_flat(h, x, is_change_view)
             next ==
                 IF lines # <<>> /\ Len(head) + f.len + 2 <= get_max_line_width
                 THEN AddToLast(lines,
                          colorful_console(<<" ">> \o f.string \o <<",">>,
                                           status))
                 ELSE IF Len(seps) + f.len < get_max_line_width
                 THEN Append(lines,
                          colorful_console(seps \o f.string \o <<",">>, status))
                 ELSE Append(lines,
                          colorful_console(
                              seps \o repr(h, x, level + 1, is_change_view)
                                  \o <<",">>, status))
         IN  IF is_deleted(h, x) /\ ~is_change_view
             THEN List_repr_loop(h, self, level, is_change_view, i + 1, lines)
             ELSE List_repr_loop(h, self, level, is_change_view, i + 1, next)

\* repr(level, is_change_view) of the three classes
repr(h, self, level, is_change_view) ==
    CASE h[self].cls = "Basic" -> ReprInt(h[self].obj)
      [] h[self].cls = "Dict" ->
           LET f == repr_flat(h, self, is_change_view) IN
           IF level = 0 /\ f.len <= get_max_line_width THEN f.string
           ELSE <<"{", "\n">>
                  \o Join(Dict_repr_loop(h, self, level, is_change_view,
                                         1, <<>>), <<"\n">>)
                  \o <<"\n">> \o sep(level) \o <<"}">>
      [] h[self].cls = "List" ->
           LET f == repr_flat(h, self, is_change_view) IN
           IF level = 0 /\ f.len <= get_max_line_width THEN f.string
           ELSE <<"[", "\n">>
                  \o Join(List_repr_loop(h, self, level, is_change_view,
                                         1, <<>>), <<"\n">>)
                  \o <<"\n">> \o sep(level) \o <<"]">>

\* BasicWrapper.view_change: the text of the change view
view_change(h, self) == repr(h, self, 0, TRUE)

\* dispatch on the class of self; the BasicWrapper methods raise TypeError
getitem(h, self, key) ==
    CASE h[self].cls = "Dict" -> Dict_getitem(h, self, key)
      [] h[self].cls = "List" -> List_getitem(h, self, key)
      [] OTHER -> Result(h, "TypeError", 0)

setitem(h, self, key, value) ==
    CASE h[self].cls = "Dict" -> Dict_setitem(h, self, key, value)
      [] h[self].cls = "List" -> List_setitem(h, self, key, value)
      [] OTHER -> Result(h, "TypeError", 0)

delitem(h, self, key) ==
    CASE h[self].cls = "Dict" -> Dict_delitem(h, self, key)
      [] h[self].cls = "List" -> List_delitem(h, self, key)
      [] OTHER -> Result(h, "TypeError", 0)

append(h, self, obj) ==
    IF h[self].cls = "List" THEN List_append(h, self, obj)
    ELSE Result(h, "TypeError", 0)

extend(h, self, iterable) ==
    IF h[self].cls = "List" THEN List_extend(h, self, iterable)
    ELSE Result(h, "TypeError", 0)

\* ---------------------------------------------------------------- inputs
\* keys a caller passes: strings to a dict, ints to a list, and one key to a
\* scalar (which raises TypeError whatever the key)
KeysOf(h, self) ==
    CASE h[self].cls = "List" -> ListKeys
      [] h[self].cls = "Dict" -> DictKeys
      [] OTHER -> {"a"}

\* a value argument: a plain value that still fits in the heap, or a wrapper
\* object that no container stores (a root, a copy, a superseded child) and
\* that does not contain self (a tree that contains itself makes unwrap()
\* exceed the recursion limit); a method that raises TypeError whatever its
\* argument is called with one value only
ValuesFor(h, self) ==
    IF h[self].cls = "Basic" THEN { S(1) }
    ELSE { v \in PlainValues : Len(h) + Size(v) <= MaxNodes }
           \cup { <<"node", n>> :
                     n \in { m \in Nodes(h) :
                         /\ self \notin Desc(h, m)
                         /\ \A q \in Nodes(h) : m \notin Children(h, q) } }

ElementsFor(h, self) ==
    IF h[self].cls = "List" THEN ValuesFor(h, self) ELSE { S(1) }

\* an iterable argument of extend: a plain list, or a ListBasicWrapper
IterablesFor(h, self) ==
    IF h[self].cls # "List" THEN { L(<<>>) }
    ELSE
    { L(vs) : vs \in { x \in PlainLists : Len(h) + SizeAll(x) <= MaxNodes } }
      \cup { <<"node", n>> : n \in { m \in Nodes(h) :
                /\ h[m].cls = "List"
                /\ \A c \in Children(h, m) : self \notin Desc(h, c) } }

NoValue == <<"none">>

\* no `with` block is open
NoScope == [depth |-> 0, entry |-> <<>>, repathed |-> FALSE]

Call(op, self, key, value, r) ==
    /\ heap' = r.h
    /\ last' = [op |-> op, self |-> self, key |-> key, value |-> value,
                exc |-> r.exc, ret |-> r.ret]
    /\ prev' = heap
    /\ last2' = last
    /\ prev2' = prev
    /\ used' = used \cup {op}
    /\ copies' = IF op = "copy" THEN copies \cup {<<self, r.ret>>} ELSE copies
    /\ nops' = nops + 1
    /\ calls' = IF op = "call" THEN Append(calls, <<key, value>>) ELSE calls
    /\ UNCHANGED <<disk, scope, max_line_width>>

\* ---------------------------------------------------------------- actions
Init ==
    \E v \in InitValues :
        /\ heap = constructor(<<>>, v).h
        /\ last = [op |-> "init", self |-> 1, key |-> 0, value |-> NoValue,
                   exc |-> "", ret |-> 1]
        /\ prev = heap
        /\ last2 = last
        /\ prev2 = heap
        /\ used = {}
        /\ copies = {}
        /\ nops = 0
        /\ disk = <<>>
        /\ scope = NoScope
        /\ calls = <<>>
        /\ max_line_width = MAX_LINE_WIDTH

GetItem ==
    /\ nops < MaxOps
    /\ \E self \in Nodes(heap) : \E key \in KeysOf(heap, self) :
        Call("get", self, key, NoValue, getitem(heap, self, key))

SetItem ==
    /\ nops < MaxOps
    /\ \E self \in Nodes(heap) : \E key \in KeysOf(heap, self) :
        \E value \in ValuesFor(heap, self) :
            Call("set", self, key, value, setitem(heap, self, key, value))

DelItem ==
    /\ nops < MaxOps
    /\ \E self \in Nodes(heap) : \E key \in KeysOf(heap, self) :
        Call("delete", self, key, NoValue, delitem(heap, self, key))

AppendItem ==
    /\ nops < MaxOps
    /\ \E self \in Nodes(heap) : \E obj \in ElementsFor(heap, self) :
        Call("append", self, 0, obj, append(heap, self, obj))

ExtendItems ==
    /\ nops < MaxOps
    /\ \E self \in Nodes(heap) : \E iterable \in IterablesFor(heap, self) :
        Call("extend", self, 0, iterable, extend(heap, self, iterable))

Copy ==
    /\ nops < MaxOps
    /\ \E self \in Nodes(heap) :
        /\ Len(heap) + Size(unwrap(heap, self)) <= MaxNodes
        /\ Call("copy", self, 0, NoValue, copy(heap, self))

Construct ==
    /\ nops < MaxOps
    /\ \E data \in Nodes(heap) :
        Call("construct", data, 0, NoValue, construct(heap, data))

Next ==
    \/ GetItem
    \/ SetItem
    \/ DelItem
    \/ AppendItem
    \/ ExtendItems
    \/ Copy
    \/ Construct

Spec == Init /\ [][Next]_vars

\* ------------------------------------------------- calls with invalid input
\* values the constructor rejects: an invalid object, one inside a list,
\* an invalid key, an invalid object two levels down
InvalidValues ==
    { X, L(<<S(1), X>>), D(<< <<TupleKey, S(1)>> >>),
      D(<< <<"a", L(<<X>>)>> >>) }

SetInvalid ==
    /\ nops < MaxOps
    /\ \E self \in Nodes(heap) : \E key \in KeysOf(heap, self) :
        \E value \in InvalidValues :
            Call("set", self, key, value, setitem(heap, self, key, value))

\* set under a key of no valid type
SetTupleKey ==
    /\ nops < MaxOps
    /\ \E self \in Nodes(heap) : \E value \in ValuesFor(heap, self) :
        /\ heap[self].cls = "Dict"
        /\ Call("set", self, TupleKey, value,
                setitem(heap, self, TupleKey, value))

AppendInvalid ==
    /\ nops < MaxOps
    /\ \E self \in Nodes(heap) : \E obj \in InvalidValues :
        Call("append", self, 0, obj, append(heap, self, obj))

ExtendInvalid ==
    /\ nops < MaxOps
    /\ \E self \in Nodes(heap) :
        \E iterable \in {S(2)} \cup {v \in InvalidValues : v[1] = "l"} :
            Call("extend", self, 0, iterable, extend(heap, self, iterable))

ConstructPlain ==
    /\ nops < MaxOps
    /\ \E data \in InvalidValues \cup {S(2)} :
        /\ Len(heap) < MaxNodes
        /\ Call("new", 0, 0, data, construct_plain(heap, data))

NextInvalid ==
    \/ SetItem
    \/ DelItem
    \/ SetInvalid
    \/ SetTupleKey
    \/ AppendInvalid
    \/ ExtendInvalid
    \/ ConstructPlain

SpecInvalid == Init /\ [][NextInvalid]_vars

TypeOK ==
    /\ Len(heap) <= MaxNodes
    /\ nops <= MaxOps

\* ============================================================== claims
IsContainer(h, n) == h[n].cls \in {"Dict", "List"}

EditOps == {"get", "set", "delete", "append", "extend"}

\* subsequence test on strings
Occurs(string, sub, at) ==
    /\ at >= 1
    /\ at + Len(sub) - 1 <= Len(string)
    /\ \A i \in 1..Len(sub) : string[at + i - 1] = sub[i]

\* the container self with the entry at position pos physically removed
Without(h, self, pos) ==
    LET cut(seq) == [i \in 1..(Len(seq) - 1) |->
                        IF i < pos THEN seq[i] ELSE seq[i + 1]]
    IN  IF h[self].cls = "Dict"
        THEN [h EXCEPT ![self].dobj = cut(@)]
        ELSE [h EXCEPT ![self].lobj = cut(@)]

RECURSIVE unwrap_entries(_, _)
\* the wrapper objects below self whose values unwrap(self) is built from
unwrap_entries(h, self) ==
    Range(PresentIds(h, self))
      \cup UNION { unwrap_entries(h, c) : c \in Range(PresentIds(h, self)) }

ShownDeleted(view, text) ==
    \E i \in 1..Len(view) : \E j \in i..Len(view) :
        /\ Occurs(view, RedOn, i)
        /\ j >= i + Len(RedOn)
        /\ \A m \in (i + Len(RedOn))..(j - 1) : view[m] = " "
        /\ Occurs(view, text, j)

\* how an entry starts in a rendering: a dict entry with its key, a list
\* entry with the rendering of the child
EntryText(h, self, pos) ==
    IF h[self].cls = "Dict"
    THEN ReprKey(h[self].dobj[pos][1]) \o <<":", " ">>
           \o repr_flat(h, h[self].dobj[pos][2], TRUE).string
    ELSE repr_flat(h, h[self].lobj[pos], TRUE).string

\* C2: delete(key) on a Mapping or Sequence is a soft delete: the child is
\* still physically stored, every value-producing view (unwrap, iteration,
\* keys/values/items, length, membership) and the normal rendering are those
\* of the container without the entry, and the change view shows the entry
\* decorated as deleted.
C2_SoftDelete ==
    (last.op = "delete" /\ last.exc = "") =>
        LET self == last.self
            pos == PosOf(prev, self, last.key)
            c == Stored(prev, self)[pos]
            gone == Without(heap, self, pos)
        IN  /\ Stored(heap, self) = Stored(prev, self)
            /\ is_deleted(heap, c)
            /\ c \notin Range(PresentIds(heap, self))
            /\ len(heap, self) < Len(Stored(heap, self))
            /\ unwrap(heap, self) = unwrap(gone, self)
            /\ PresentIds(heap, self) = PresentIds(gone, self)
            /\ iter(heap, self) = iter(gone, self)
            /\ len(heap, self) = len(gone, self)
            /\ (heap[self].cls = "Dict") =>
                  /\ ~Dict_contains(heap, self, last.key)
                  /\ keys(heap, self) = keys(gone, self)
                  /\ items(heap, self) = items(gone, self)
                  /\ \A i \in 1..Len(keys(heap, self)) :
                        keys(heap, self)[i] # last.key
            /\ ~(heap[self].cls = "Dict") =>
                  \A value \in {<<"node", c>>, unwrap(prev, c)} :
                      List_contains(heap, self, value)
                          = List_contains(gone, self, value)
            /\ repr(heap, self, 0, FALSE) = repr(gone, self, 0, FALSE)
            /\ ShownDeleted(view_change(heap, self), EntryText(heap, self, pos))

\* C2 witness: a present child of a dict has just been deleted.
C2_Witness ==
    /\ last.op = "delete"
    /\ last.exc = ""
    /\ heap[last.self].cls = "Dict"
    /\ is_present(prev, Stored(prev, last.self)[PosOf(prev, last.self, last.key)])

\* the child a successful set has stored under the key
NewChild == Stored(heap, last.self)[PosOf(heap, last.self, last.key)]

\* C3 (as stated): for a Mapping and for a Sequence, set(key, value) on a
\* key or index that already holds a child leaves the new child replaced,
\* with replaced_value() the old child and the old child deleted; set on a
\* key that did not exist leaves the new child added.
C3_SetMarksReplacedOrAdded ==
    (/\ last.op = "set"
     /\ last.exc = ""
     /\ ~IsNode(last.value)
     /\ IsContainer(heap, last.self)) =>
        LET pos == PosOf(prev, last.self, last.key) IN
        IF pos # 0
        THEN /\ heap[NewChild].status = "r"
             /\ replaced_value(heap, NewChild) = Stored(prev, last.self)[pos]
             /\ is_deleted(heap, Stored(prev, last.self)[pos])
        ELSE heap[NewChild].status = "a"

\* C4 (as stated): in every state reached by set, delete, append and extend
\* only, every object whose status is replaced has a replaced value, that
\* value is deleted, and it is stored in no container.
C4_ReplacedSupersedes ==
    (used \subseteq EditOps) =>
        \A n \in Nodes(heap) :
            heap[n].status = "r" =>
                /\ replaced_value(heap, n) # 0
                /\ is_deleted(heap, replaced_value(heap, n))
                /\ \A m \in Nodes(heap) :
                      replaced_value(heap, n) \notin Children(heap, m)

\* the present-entries view of a Mapping: keys, items, length and unwrap
PresentView(h, self) ==
    [keys |-> keys(h, self), items |-> items(h, self),
     len |-> len(h, self), unwrap |-> unwrap(h, self)]

\* set(k, v) with a plain value on a Mapping, immediately followed by
\* delete(k) on the same Mapping
SetThenDelete ==
    /\ last.op = "delete"
    /\ last.exc = ""
    /\ last2.op = "set"
    /\ last2.exc = ""
    /\ ~IsNode(last2.value)
    /\ last2.self = last.self
    /\ last2.key = last.key
    /\ heap[last.self].cls = "Dict"

\* the node that set stored under the key is still stored under it and the
\* change view shows it as deleted
SetNodeKept ==
    LET pos == PosOf(heap, last.self, last.key) IN
    /\ pos # 0
    /\ Stored(heap, last.self)[pos] = Stored(prev, last.self)[pos]
    /\ Stored(heap, last.self)[pos] \notin Nodes(prev2)
    /\ ShownDeleted(view_change(heap, last.self),
                    EntryText(heap, last.self, pos))

RECURSIVE ClosureAll(_, _, _)
ClosureAll(h, front, seen) ==
    IF front \subseteq seen THEN seen
    ELSE ClosureAll(h,
             UNION { Children(h, x) \cup
                         (IF h[x].replaced_value = 0 THEN {}
                          ELSE {h[x].replaced_value}) : x \in front },
             seen \cup front)

ReachAll(h, n) == ClosureAll(h, {n}, {})

C7_ConstructIsNoOp ==
    last.op = "construct" =>
        /\ last.ret = last.self
        /\ heap = prev

\* C8: on a Sequence, append(v) makes unwrap() the previous unwrap()
\* followed by v, and extend(vs) the previous unwrap() followed by the
\* elements of vs in order; every new element is a new object with status
\* added, and the stored elements and their statuses are as before.
C8_AppendExtend ==
    (/\ last.op \in {"append", "extend"}
     /\ last.exc = ""
     /\ ~IsNode(last.value)) =>
        LET self == last.self
            old == prev[self].lobj
            new == heap[self].lobj
            vs == IF last.op = "append" THEN <<last.value>> ELSE last.value[2]
        IN  /\ unwrap(heap, self) = L(unwrap(prev, self)[2] \o vs)
            /\ Len(new) = Len(old) + Len(vs)
            /\ \A i \in 1..Len(old) :
                  /\ new[i] = old[i]
                  /\ heap[old[i]].status = prev[old[i]].status
            /\ \A i \in (Len(old) + 1)..Len(new) :
                  /\ heap[new[i]].status = "a"
                  /\ new[i] \notin Nodes(prev)
                  /\ unwrap(heap, new[i]) = vs[i - Len(old)]

\* C8 witness: a value has been appended to a Sequence that already held an
\* element with a status.
C8_Witness ==
    /\ last.op = "append"
    /\ last.exc = ""
    /\ ~IsNode(last.value)
    /\ \E i \in 1..Len(prev[last.self].lobj) :
          prev[prev[last.self].lobj[i]].status # ""

\* the key of the last get is not stored / is stored with a deleted entry
GetOfAbsent == PosOf(prev, last.self, last.key) = 0

GetOfDeleted ==
    /\ PosOf(prev, last.self, last.key) # 0
    /\ is_deleted(prev, Stored(prev, last.self)[PosOf(prev, last.self, last.key)])

\* C9 (as stated): get(key) raises a key error and changes nothing when the
\* key is absent or its entry is deleted, for a Mapping by key and for a
\* Sequence by index; on a Scalar it raises a type error.
C9_GetRaisesKeyError ==
    last.op = "get" =>
        /\ heap = prev
        /\ ~IsContainer(prev, last.self) => last.exc = "TypeError"
        /\ (IsContainer(prev, last.self) /\ (GetOfAbsent \/ GetOfDeleted)) =>
              last.exc = "KeyError" /\ last.ret = 0

\* C9 (amended): as stated, except that a Sequence raises an index error
\* (IndexError), not a key error, for an index outside its stored range.
C9_GetRaises ==
    last.op = "get" =>
        /\ heap = prev
        /\ ~IsContainer(prev, last.self) => last.exc = "TypeError"
        /\ (IsContainer(prev, last.self) /\ GetOfDeleted) =>
              last.exc = "KeyError" /\ last.ret = 0
        /\ (prev[last.self].cls = "Dict" /\ GetOfAbsent) =>
              last.exc = "KeyError" /\ last.ret = 0
        /\ (prev[last.self].cls = "List" /\ GetOfAbsent) =>
              last.exc = "IndexError" /\ last.ret = 0

\* C9 witness: get on the index of a deleted element of a Sequence.
C9_Witness ==
    /\ last.op = "get"
    /\ prev[last.self].cls = "List"
    /\ GetOfDeleted

\* C10: a Node equals another object exactly when that object is a Node of
\* the family and the two unwrap() results are equal; statuses and
\* soft-deleted entries play no part.  Stated on every heap the calls
\* produce: a call that leaves the heap as it was leaves every comparison
\* as it was.
C10_EqIffSameUnwrap ==
    (nops = 0 \/ heap # prev) =>
    LET u == unwrap_elements(heap, [n \in Nodes(heap) |-> n]) IN
    /\ \A a, b \in Nodes(heap) :
          BasicWrapper_eq(heap, a, <<"node", b>>) <=> PyEq(u[a], u[b])
    /\ \A a \in Nodes(heap) : \A x \in PlainValues :
          ~BasicWrapper_eq(heap, a, x)

\* C10 witness: two containers are equal although one of them stores a
\* soft-deleted entry the other does not have.
C10_Witness ==
    \E a, b \in Nodes(heap) :
        /\ a # b
        /\ IsContainer(heap, a)
        /\ BasicWrapper_eq(heap, a, <<"node", b>>)
        /\ Len(Stored(heap, a)) # Len(Stored(heap, b))

\* C11: a construction, set, append or extend given a value the constructor
\* rejects (an invalid type or an invalid key type, at any depth) raises
\* TypeError and leaves every object as it was.
C11_WrappingAllOrNothing ==
    (/\ last.op \in {"set", "append", "extend", "new"}
     /\ ~IsNode(last.value)
     /\ invalid_type(last.value)) =>
        /\ last.exc = "TypeError"
        /\ heap = prev

\* C11 witness: a set under a key that holds a child was given a value that
\* is invalid two levels down, after the tree had been edited.
C11_Witness ==
    /\ last.op = "set"
    /\ last.value = D(<< <<"a", L(<<X>>)>> >>)
    /\ heap[last.self].cls = "Dict"
    /\ KeyPos(prev[last.self].dobj, last.key) # 0
    /\ last2.op \in {"set", "delete"}
    /\ last2.exc = ""

\* C12 (as stated): every key stored in every Mapping is of a valid key
\* type, and a set under a key of another type raises TypeError.
C12_KeysValid ==
    /\ \A n \in Nodes(heap) :
          heap[n].cls = "Dict" =>
              \A i \in 1..Len(heap[n].dobj) :
                  KeyType(heap[n].dobj[i][1]) \in valid_types
    /\ (/\ last.op = "set"
        /\ heap[last.self].cls = "Dict"
        /\ KeyType(last.key) \notin valid_types) => last.exc = "TypeError"

\* ================================================================ templates
\* The template classes (src/src/cfgtools/templatelib.py): ConfigTemplate,
\* DictConfigTemplate and ListConfigTemplate objects live in the same heap.
\* A template scalar holds the tagged value itself: a plain scalar
\* <<"s", i>>, a type <<"type", name>>, a Flag <<"flag", name>> or a unary
\* predicate <<"fn", name>>.
Ty(name) == <<"type", name>>

Fl(name) == <<"flag", name>>

Fn(name) == <<"fn", name>>

TemplateValues ==
    { D(<< <<"a", L(<<S(1), Ty("int")>>)>>, <<"b", Fl("ANY")>> >>),
      L(<<Ty("int"), D(<< <<"a", Fn("positive")>> >>)>>) }

\* values a caller passes to a template mutator: plain values, a value of
\* an invalid type, and a template object
TemplateArgs(h) == { S(2), L(<<Fl("ANY")>>), X, <<"node", Len(h)>> }

RECURSIVE Template_invalid_type(_)
\* ConfigTemplate(data) raises TypeError: data, or a value or key inside it,
\* is of no valid type
Template_invalid_type(v) ==
    CASE v[1] \in {"s", "type", "flag", "fn"} -> FALSE
      [] v[1] = "l" -> \E i \in 1..Len(v[2]) : Template_invalid_type(v[2][i])
      [] v[1] = "d" -> \E i \in 1..Len(v[2]) :
                          \/ KeyType(v[2][i][1]) \notin valid_types
                          \/ Template_invalid_type(v[2][i][2])
      [] OTHER -> TRUE

RECURSIVE Template_constructor(_, _)
RECURSIVE Template_WrapAll(_, _)
\* ConfigTemplate.__new__ + __init__ on a valid plain value
Template_constructor(h, v) ==
    LET id == Len(h) + 1 IN
    CASE v[1] = "l" ->
           LET r == Template_WrapAll(
                       Append(h, NewNode("ListConfigTemplate", 0, <<>>, <<>>)),
                       v[2])
           IN  [h |-> [r.h EXCEPT ![id].lobj = r.ids], id |-> id]
      [] v[1] = "d" ->
           LET kvs == v[2]
               r == Template_WrapAll(
                       Append(h, NewNode("DictConfigTemplate", 0, <<>>, <<>>)),
                       [i \in 1..Len(kvs) |-> kvs[i][2]])
           IN  [h |-> [r.h EXCEPT ![id].dobj =
                          [i \in 1..Len(kvs) |-> <<kvs[i][1], r.ids[i]>>]],
                id |-> id]
      [] OTHER ->
           [h |-> Append(h, NewNode("ConfigTemplate", v, <<>>, <<>>)),
            id |-> id]

Template_WrapAll(h, vs) ==
    IF vs = <<>> THEN [h |-> h, ids |-> <<>>]
    ELSE LET r == Template_constructor(h, Head(vs))
             rest == Template_WrapAll(r.h, Tail(vs))
         IN  [h |-> rest.h, ids |-> <<r.id>> \o rest.ids]

\* the class names that contain "Template"
TemplateNames ==
    {"ConfigTemplate", "DictConfigTemplate", "ListConfigTemplate"}

\* variant: is_template() answers False
is_template_never(h, self) == FALSE

\* `"Template" in self.__class__.__name__`
is_template(h, self) == h[self].cls \in TemplateNames

Template_mark_as_deleted(h, self) ==
    IF is_template(h, self) THEN Result(h, "TypeError", 0)
    ELSE Result([h EXCEPT ![self].status = "d"], "", 0)

Template_mark_as_added(h, self) ==
    IF is_template(h, self) THEN Result(h, "TypeError", 0)
    ELSE Result([h EXCEPT ![self].status = "a"], "", 0)

Template_mark_as_replaced(h, self, new_value) ==
    IF is_template(h, self) THEN Result(h, "TypeError", 0)
    ELSE Result([h EXCEPT ![self].status = "r"], "", 0)

RECURSIVE Template_unwrap(_, _)
\* ConfigTemplate.unwrap / DictConfigTemplate.unwrap / ListConfigTemplate.unwrap
Template_unwrap(h, self) ==
    CASE h[self].cls = "DictConfigTemplate" ->
           LET kvs == SelectSeq(h[self].dobj,
                                LAMBDA kv : is_present(h, kv[2]))
           IN  D([i \in 1..Len(kvs) |->
                     <<kvs[i][1], Template_unwrap(h, kvs[i][2])>>])
      [] h[self].cls = "ListConfigTemplate" ->
           LET ids == SelectSeq(h[self].lobj, LAMBDA x : is_present(h, x))
           IN  L([i \in 1..Len(ids) |-> Template_unwrap(h, ids[i])])
      [] OTHER -> h[self].obj

\* __setitem__ of the three template classes
Template_setitem(h, self, key, value) ==
    IF h[self].cls = "ConfigTemplate" THEN Result(h, "TypeError", 0)
    ELSE IF ~IsNode(value) /\ Template_invalid_type(value)
    THEN Result(h, "TypeError", 0)
    ELSE
    LET w == IF IsNode(value) THEN [h |-> h, id |-> value[2]]
             ELSE Template_constructor(h, value)
        m == Template_mark_as_added(w.h, w.id)
    IN
    IF m.exc # "" THEN Result(h, m.exc, 0)
    ELSE IF h[self].cls = "DictConfigTemplate"
    THEN LET pos == KeyPos(h[self].dobj, key) IN
         IF pos # 0
         THEN Template_mark_as_replaced(m.h, h[self].dobj[pos][2], w.id)
         ELSE Result([m.h EXCEPT ![self].dobj = Append(@, <<key, w.id>>)],
                     "", 0)
    ELSE LET pos == PyIndex(Len(h[self].lobj), key) IN
         IF pos = 0 THEN Result(m.h, "IndexError", 0)
         ELSE Result([m.h EXCEPT ![self].lobj[pos] = w.id], "", 0)

\* __delitem__ of the three template classes
Template_delitem(h, self, key) ==
    CASE h[self].cls = "DictConfigTemplate" ->
           LET pos == KeyPos(h[self].dobj, key) IN
           IF pos = 0 THEN Result(h, "KeyError", 0)
           ELSE Template_mark_as_deleted(h, h[self].dobj[pos][2])
      [] h[self].cls = "ListConfigTemplate" ->
           LET pos == PyIndex(Len(h[self].lobj), key) IN
           IF pos = 0 THEN Result(h, "IndexError", 0)
           ELSE Template_mark_as_deleted(h, h[self].lobj[pos])
      [] OTHER -> Result(h, "TypeError", 0)

\* append of the three template classes
Template_append(h, self, obj) ==
    IF h[self].cls # "ListConfigTemplate" THEN Result(h, "TypeError", 0)
    ELSE IF ~IsNode(obj) /\ Template_invalid_type(obj)
    THEN Result(h, "TypeError", 0)
    ELSE
    LET w == IF IsNode(obj) THEN [h |-> h, id |-> obj[2]]
             ELSE Template_constructor(h, obj)
        m == Template_mark_as_added(w.h, w.id)
    IN  IF m.exc # "" THEN Result(h, m.exc, 0)
        ELSE Result([m.h EXCEPT ![self].lobj = Append(@, w.id)], "", 0)

TemplateKeysOf(h, self) ==
    IF h[self].cls = "ListConfigTemplate" THEN ListKeys ELSE DictKeys

InitTemplate ==
    \E v \in TemplateValues :
        /\ heap = Template_constructor(<<>>, v).h
        /\ last = [op |-> "init", self |-> 1, key |-> 0, value |-> NoValue,
                   exc |-> "", ret |-> 1]
        /\ prev = heap
        /\ last2 = last
        /\ prev2 = heap
        /\ used = {}
        /\ copies = {}
        /\ nops = 0
        /\ disk = <<>>
        /\ scope = NoScope
        /\ calls = <<>>
        /\ max_line_width = MAX_LINE_WIDTH

TemplateSetItem ==
    /\ nops < MaxOps
    /\ \E self \in Nodes(heap) : \E key \in TemplateKeysOf(heap, self) :
        \E value \in TemplateArgs(heap) :
            Call("set", self, key, value,
                 Template_setitem(heap, self, key, value))

TemplateDelItem ==
    /\ nops < MaxOps
    /\ \E self \in Nodes(heap) : \E key \in TemplateKeysOf(heap, self) :
        Call("delete", self, key, NoValue, Template_delitem(heap, self, key))

TemplateAppend ==
    /\ nops < MaxOps
    /\ \E self \in Nodes(heap) :
        \E obj \in TemplateArgs(heap) :
            Call("append", self, 0, obj, Template_append(heap, self, obj))

TemplateMark ==
    /\ nops < MaxOps
    /\ \E self \in Nodes(heap) :
        \/ Call("mark_as_deleted", self, 0, NoValue,
                Template_mark_as_deleted(heap, self))
        \/ Call("mark_as_added", self, 0, NoValue,
                Template_mark_as_added(heap, self))
        \/ Call("mark_as_replaced", self, 0, <<"node", 1>>,
                Template_mark_as_replaced(heap, self, 1))

NextTemplate ==
    \/ TemplateSetItem
    \/ TemplateDelItem
    \/ TemplateAppend
    \/ TemplateMark

SpecTemplate == InitTemplate /\ [][NextTemplate]_vars

TemplateMutators ==
    {"set", "delete", "append",
     "mark_as_deleted", "mark_as_added", "mark_as_replaced"}

\* the template is as constructed: no object carries a status, and the heap
\* is the heap the constructor built
TemplateUntouched ==
    /\ \A n \in Nodes(heap) : heap[n].status = ""
    /\ \E v \in TemplateValues :
          /\ heap = Template_constructor(<<>>, v).h
          /\ Template_unwrap(heap, 1) = v

\* C13 (as stated): every set, delete, append and mark_as_* on a template
\* raises TypeError and leaves the template as constructed.
C13_MutatorsRaiseTypeError ==
    /\ TemplateUntouched
    /\ last.op \in TemplateMutators =>
          (last.exc = "TypeError" /\ heap = prev)

\* C13 (amended): every set, delete, append and mark_as_* on a template
\* raises and leaves the template as constructed; the error is a TypeError,
\* except for a delete of a key that is not stored (KeyError) or of an
\* index out of range (IndexError).
C13_MutatorsRaise ==
    /\ TemplateUntouched
    /\ last.op \in TemplateMutators =>
          /\ heap = prev
          /\ last.exc =
                IF last.op = "delete"
                   /\ heap[last.self].cls = "DictConfigTemplate"
                   /\ KeyPos(heap[last.self].dobj, last.key) = 0
                THEN "KeyError"
                ELSE IF last.op = "delete"
                        /\ heap[last.self].cls = "ListConfigTemplate"
                        /\ PyIndex(Len(heap[last.self].lobj), last.key) = 0
                THEN "IndexError"
                ELSE "TypeError"

\* C13 witness: a set of a valid value under a stored key of a Mapping
\* template raised, after a delete of a stored element of a Sequence
\* template had raised.
C13_Witness ==
    /\ last.op = "set"
    /\ heap[last.self].cls = "DictConfigTemplate"
    /\ KeyPos(heap[last.self].dobj, last.key) # 0
    /\ last.value = S(2)
    /\ last.exc = "TypeError"
    /\ last2.op = "delete"
    /\ heap[last2.self].cls = "ListConfigTemplate"
    /\ last2.exc = "TypeError"

\* ============================================================ save and lock
\* The I/O wrapper (src/src/iowrapper.py, src/src/saver.py).  heap[1] is the
\* ConfigIOWrapper object with its attributes path, fileformat, encoding and
\* overwrite_ok; disk records every file a saver opened for writing.  A path
\* is <<stem, suffix>>; the arguments left out of a call are None.
None == "None"

\* the number of calls on the I/O wrapper (the call leaving a `with` block
\* not counted)
MaxIOOps == 3

NoPath == <<>>

Paths == { <<"a", ".json">>, <<"b", ".cfg">> }

SUFFIX_MAPPING ==
    (".yaml" :> "yaml") @@ (".yml" :> "yaml") @@ (".pickle" :> "pickle")
    @@ (".pkl" :> "pickle") @@ (".json" :> "json") @@ (".ini" :> "ini")
    @@ (".txt" :> "text") @@ (".bytes" :> "bytes")

FORMAT_MAPPING ==
    ("yaml" :> "yaml") @@ ("yml" :> "yaml") @@ ("pickle" :> "pickle")
    @@ ("pkl" :> "pickle") @@ ("json" :> "json") @@ ("ini" :> "ini")
    @@ ("text" :> "text") @@ ("txt" :> "text") @@ ("bytes" :> "bytes")

\* Path(path).suffix
suffix(path) == path[2]

\* what a call on the I/O wrapper gives: the wrapper afterwards, the
\* exception raised ("" if none) and the files opened for writing
IOResult(w, exc, written) == [w |-> w, exc |-> exc, written |-> written]

\* ConfigSaver.save: the saver of the format opens the file for writing and
\* dumps the data; codec_ok is whether the codec returns without raising
ConfigSaver_save(w, path, fileformat, encoding, codec_ok) ==
    IOResult(w, IF codec_ok THEN "" ELSE "CodecError",
             << [path |-> path, fileformat |-> fileformat,
                 encoding |-> encoding] >>)

\* variant: the lock is not looked at
ConfigIOWrapper_save_unguarded(w, path, fileformat, encoding, codec_ok) ==
    IF path = NoPath /\ w.path = NoPath THEN IOResult(w, "ValueError", <<>>)
    ELSE ConfigSaver_save(w, IF path = NoPath THEN w.path ELSE path, "json",
                          encoding, codec_ok)

ConfigIOWrapper_save(w, path, fileformat, encoding, codec_ok) ==
    IF path = NoPath /\ w.path = NoPath THEN IOResult(w, "ValueError", <<>>)
    ELSE IF path = NoPath /\ ~w.overwrite_ok
    THEN IOResult(w, "TypeError", <<>>)
    ELSE
    LET path1 == IF path = NoPath THEN w.path ELSE path
        fileformat1 ==
            IF fileformat # None THEN fileformat
            ELSE IF suffix(path1) \in DOMAIN SUFFIX_MAPPING
            THEN SUFFIX_MAPPING[suffix(path1)]
            ELSE IF w.fileformat = None THEN "json" ELSE w.fileformat
        encoding1 == IF encoding = None THEN w.encoding ELSE encoding
    IN  IF fileformat1 \in DOMAIN FORMAT_MAPPING
        THEN ConfigSaver_save(w, path1, FORMAT_MAPPING[fileformat1],
                              encoding1, codec_ok)
        ELSE IOResult(w, "FileFormatError", <<>>)

set_path(w, path) ==
    IF ~w.overwrite_ok THEN IOResult(w, "TypeError", <<>>)
    ELSE IOResult([w EXCEPT !.path = path], "", <<>>)

lock(w) == [w EXCEPT !.overwrite_ok = FALSE]

unlock(w) == [w EXCEPT !.overwrite_ok = TRUE]

ConfigIOWrapper_enter(w) ==
    IF w.path = NoPath THEN IOResult(w, "TypeError", <<>>)
    ELSE IF ~w.overwrite_ok THEN IOResult(w, "TypeError", <<>>)
    ELSE IOResult(lock(w), "", <<>>)

\* variant: __exit__ saves before it unlocks
ConfigIOWrapper_exit_locked(w, codec_ok) ==
    LET r == ConfigIOWrapper_save(w, NoPath, None, None, codec_ok)
    IN  IOResult(unlock(r.w), r.exc, r.written)

\* __exit__: unlock(), then save(); nothing is returned
ConfigIOWrapper_exit(w, codec_ok) ==
    ConfigIOWrapper_save(unlock(w), NoPath, None, None, codec_ok)

\* a call on the I/O wrapper; key and value are its arguments
IOCall(op, key, value, r, exc, ret) ==
    /\ heap' = <<r.w>>
    /\ last' = [op |-> op, self |-> 1, key |-> key, value |-> value,
                exc |-> exc, ret |-> ret]
    /\ prev' = heap
    /\ last2' = last
    /\ prev2' = prev
    /\ used' = used \cup {op}
    /\ copies' = copies
    /\ nops' = nops + 1
    /\ disk' = disk \o [i \in 1..Len(r.written) |->
                           [path |-> r.written[i].path,
                            fileformat |-> r.written[i].fileformat,
                            encoding |-> r.written[i].encoding,
                            at |-> nops + 1]]
    /\ calls' = calls
    /\ UNCHANGED max_line_width

\* ConfigIOWrapper(data, fileformat, path=..., encoding=...)
InitIO ==
    \E path \in Paths \cup {NoPath} : \E fileformat \in {None, "yml", "xml"} :
        /\ heap = << [cls |-> "ConfigIOWrapper", path |-> path,
                      fileformat |-> fileformat, encoding |-> "utf-8",
                      overwrite_ok |-> TRUE] >>
        /\ last = [op |-> "init", self |-> 1, key |-> 0, value |-> NoValue,
                   exc |-> "", ret |-> 1]
        /\ prev = heap
        /\ last2 = last
        /\ prev2 = heap
        /\ used = {}
        /\ copies = {}
        /\ nops = 0
        /\ disk = <<>>
        /\ scope = NoScope
        /\ calls = <<>>
        /\ max_line_width = MAX_LINE_WIDTH

\* the arguments of a save call
SaveArgs ==
    { <<path, fileformat, None>> :
          path \in Paths \cup {NoPath}, fileformat \in {None, "pkl", "xml"} }
    \cup { << <<"b", ".cfg">>, None, "ascii">> }

Save ==
    /\ nops < MaxIOOps
    /\ \E args \in SaveArgs : \E codec_ok \in BOOLEAN :
        LET r == ConfigIOWrapper_save(heap[1], args[1], args[2], args[3],
                                      codec_ok)
        IN  /\ IOCall("save", args[1], <<args[2], args[3]>>, r, r.exc, 0)
            /\ UNCHANGED scope

SetPath ==
    /\ nops < MaxIOOps
    /\ \E path \in Paths :
        LET r == set_path(heap[1], path)
        IN  /\ IOCall("set_path", path, NoValue, r, r.exc, 0)
            /\ scope' = IF scope.depth > 0 /\ r.exc = ""
                        THEN [scope EXCEPT !.repathed = TRUE] ELSE scope

Lock ==
    /\ nops < MaxIOOps
    /\ IOCall("lock", 0, NoValue, IOResult(lock(heap[1]), "", <<>>), "", 0)
    /\ UNCHANGED scope

Unlock ==
    /\ nops < MaxIOOps
    /\ IOCall("unlock", 0, NoValue, IOResult(unlock(heap[1]), "", <<>>), "", 0)
    /\ UNCHANGED scope

\* `with wrapper:` is entered; when __enter__ raises, the block is not run
Enter ==
    /\ nops < MaxIOOps
    /\ scope.depth = 0
    /\ LET r == ConfigIOWrapper_enter(heap[1])
       IN  /\ IOCall("enter", 0, NoValue, r, r.exc, 0)
           /\ scope' = IF r.exc # "" THEN scope
                       ELSE [depth |-> 1, entry |-> heap[1].path,
                             repathed |-> FALSE]

\* the block is left, normally (raised = "") or by an exception raised
\* inside it; __exit__ runs, and the caller observes last.exc: the exception
\* __exit__ raised, with the block's exception as its context (last.ret),
\* or else the block's exception
Exit ==
    /\ scope.depth = 1
    /\ \E raised \in {"", "KeyError"} : \E codec_ok \in BOOLEAN :
        LET r == ConfigIOWrapper_exit(heap[1], codec_ok)
        IN  /\ IOCall("exit", raised, scope.entry, r,
                      IF r.exc # "" THEN r.exc ELSE raised,
                      IF r.exc # "" THEN raised ELSE "")
            /\ scope' = [scope EXCEPT !.depth = 0]

NextIO ==
    \/ Save
    \/ SetPath
    \/ Lock
    \/ Unlock
    \/ Enter
    \/ Exit

SpecIO == InitIO /\ [][NextIO]_vars

\* the files the last call opened for writing
WrittenByLast == SelectSeq(disk, LAMBDA f : f.at = nops)

\* the guard of save() that fails first for the last call, "" if none: no
\* path at all, then the lock, then the format
FailedGuard ==
    LET w == prev[1]
        path == last.key
        fileformat == last.value[1]
        path1 == IF path = NoPath THEN w.path ELSE path
        fileformat1 ==
            IF fileformat # None THEN fileformat
            ELSE IF suffix(path1) \in DOMAIN SUFFIX_MAPPING
            THEN SUFFIX_MAPPING[suffix(path1)]
            ELSE IF w.fileformat = None THEN "json" ELSE w.fileformat
    IN  IF path = NoPath /\ w.path = NoPath THEN "ValueError"
        ELSE IF path = NoPath /\ ~w.overwrite_ok THEN "TypeError"
        ELSE IF fileformat1 \notin
                  {"yaml", "yml", "pickle", "pkl", "json", "ini", "text",
                   "txt", "bytes"}
        THEN "FileFormatError"
        ELSE ""

\* C14: a save() whose guard fails (no path argument and no default path:
\* ValueError; else no path argument on a locked wrapper: TypeError; else
\* an unsupported format: FileFormatError) opens no file for writing and
\* leaves path, format, encoding and lock state as they were.
C14_GuardFailureNoSideEffect ==
    (last.op = "save" /\ FailedGuard # "") =>
        /\ last.exc = FailedGuard
        /\ WrittenByLast = <<>>
        /\ heap = prev

\* C14 witness: a save() without arguments failed on the format of a
\* wrapper that has a path, right after the wrapper had been unlocked.
C14_Witness ==
    /\ last.op = "save"
    /\ last.key = NoPath
    /\ last.exc = "FileFormatError"
    /\ prev[1].path # NoPath
    /\ last2.op = "unlock"
    /\ ~prev2[1].overwrite_ok

\* C15 (as stated): a save() on a locked wrapper, without a path argument
\* or with a path argument equal to the wrapper's own path, raises
\* TypeError and does not open the wrapper's path for writing.
C15_LockedPathNotWritten ==
    (/\ last.op = "save"
     /\ ~prev[1].overwrite_ok
     /\ prev[1].path # NoPath
     /\ last.key \in {NoPath, prev[1].path}) =>
        /\ last.exc = "TypeError"
        /\ \A i \in 1..Len(WrittenByLast) :
               WrittenByLast[i].path # prev[1].path

\* the exception the save() of the last __exit__ raised, "" if none
ExitSaveExc ==
    IF last.ret # "" \/ last.key = "" THEN last.exc ELSE ""

\* entering the block of an unlocked wrapper that has a path locks it, and
\* save() then raises TypeError
EnterLocks ==
    (last.op = "enter" /\ prev[1].path # NoPath /\ prev[1].overwrite_ok) =>
        /\ last.exc = ""
        /\ scope.depth = 1
        /\ ~heap[1].overwrite_ok
        /\ \A codec_ok \in BOOLEAN :
              ConfigIOWrapper_save(heap[1], NoPath, None, None,
                                   codec_ok).exc = "TypeError"

\* C16 (as stated): entering the block locks the wrapper; every exit makes
\* exactly one save to the path the wrapper had on entry and leaves the
\* wrapper unlocked, and the caller observes the exception raised inside
\* the block.
C16_ScopedSave ==
    /\ EnterLocks
    /\ last.op = "exit" =>
          /\ heap[1].overwrite_ok
          /\ Len(WrittenByLast) <= 1
          /\ ExitSaveExc \in {"", "CodecError"} => Len(WrittenByLast) = 1
          /\ \A i \in 1..Len(WrittenByLast) :
                WrittenByLast[i].path = scope.entry
          /\ last.key # "" => last.exc = last.key

\* C16 (amended): entering the block locks the wrapper; every exit unlocks
\* it and calls save() once, which opens the wrapper's current path (the
\* path on entry unless the block unlocked the wrapper and set a new path)
\* once, or raises FileFormatError before opening anything; the caller
\* observes the exception raised inside the block, or the exception of that
\* save() with the block's exception as its context.
C16_ScopedSaveChained ==
    /\ EnterLocks
    /\ last.op = "exit" =>
          /\ heap[1].overwrite_ok
          /\ scope.depth = 0
          /\ ExitSaveExc \in {"", "CodecError", "FileFormatError"}
          /\ Len(WrittenByLast) =
                IF ExitSaveExc = "FileFormatError" THEN 0 ELSE 1
          /\ \A i \in 1..Len(WrittenByLast) :
                /\ WrittenByLast[i].path = prev[1].path
                /\ ~scope.repathed => WrittenByLast[i].path = scope.entry
          /\ last.key # "" =>
                \/ last.exc = last.key /\ ExitSaveExc = ""
                \/ last.ret = last.key /\ last.exc = ExitSaveExc
                                       /\ ExitSaveExc # ""

\* C16 witness: a block was left by an exception after a save() inside it
\* had been refused; the exit saved once and the exception reached the
\* caller.
C16_Witness ==
    /\ last.op = "exit"
    /\ last.key = "KeyError"
    /\ last.exc = "KeyError"
    /\ Len(WrittenByLast) = 1
    /\ last2.op = "save"
    /\ last2.exc = "TypeError"
    /\ heap[1].overwrite_ok

\* ==================================================================== flags
\* Flags in a wrapped tree (src/src/cfgtools/basic.py): a scalar holds the
\* tagged value itself, as in a template: a Flag <<"flag", name>>, the
\* Ellipsis <<"ellipsis">>, or, after replace_flags(), the predicate
\* <<"fn", name, recorder>> that closes over the recorder.  A recorder is a
\* dict object of the heap; its items are in dobj.
MaxFlagOps == 3

El == <<"ellipsis">>

\* the key that is the Flag itself
FlagKey(flag) == "Flag(" \o flag \o ")"

\* the objects of a tree built by the constructor, as classes of basic.py
BasicFamily(h) ==
    [n \in 1..Len(h) |->
        [h[n] EXCEPT !.cls =
            CASE h[n].cls = "DictConfigTemplate" -> "Dict"
              [] h[n].cls = "ListConfigTemplate" -> "List"
              [] OTHER -> "Basic"]]

\* `{}`
NewRecorder == NewNode("dict", 0, <<>>, <<>>)

IsRecorder(h, n) == h[n].cls = "dict"

\* dict.get(key, default) and d[key] = value on the items of a dict
DictGet(d, key, default) ==
    IF KeyPos(d, key) = 0 THEN default ELSE d[KeyPos(d, key)][2]

DictSet(d, key, value) ==
    IF KeyPos(d, key) = 0 THEN Append(d, <<key, value>>)
    ELSE [d EXCEPT ![KeyPos(d, key)] = <<key, value>>]

\* variant: RETURN keeps the last value
predicate_overwriting(h, fn, x) ==
    CASE fn[2] = "NEVER" -> Result(h, "", FALSE)
      [] fn[2] = "RETURN" ->
           Result([h EXCEPT ![fn[3]].dobj = DictSet(@, "RETURN", x)],
                  "", TRUE)
      [] fn[2] = "YIELD" ->
           Result([h EXCEPT ![fn[3]].dobj =
                      DictSet(@, "YIELD",
                              L(DictGet(@, "YIELD", L(<<>>))[2] \o <<x>>))],
                  "", TRUE)
      [] OTHER -> Result(h, "", TRUE)

\* the four lambdas of replace_flags, called with x
predicate(h, fn, x) ==
    CASE fn[2] = "NEVER" -> Result(h, "", FALSE)
      [] fn[2] = "RETURN" ->
           Result([h EXCEPT ![fn[3]].dobj =
                      IF KeyPos(@, "RETURN") = 0
                      THEN DictSet(@, "RETURN", x) ELSE @],
                  "", TRUE)
      [] fn[2] = "YIELD" ->
           Result([h EXCEPT ![fn[3]].dobj =
                      DictSet(@, "YIELD",
                              L(DictGet(@, "YIELD", L(<<>>))[2] \o <<x>>))],
                  "", TRUE)
      [] OTHER -> Result(h, "", TRUE)

RECURSIVE replace_flags(_, _, _)
RECURSIVE replace_flags_all(_, _, _)
\* replace_flags(recorder) of the three classes; recorder is 0 for None;
\* the result is the recorder
replace_flags(h, self, recorder) ==
    LET h0 == IF recorder = 0 THEN Append(h, NewRecorder) ELSE h
        rec == IF recorder = 0 THEN Len(h) + 1 ELSE recorder
    IN
    CASE h[self].cls = "Dict" ->
           LET kvs == Dict_unwrap_top_level(h, self)
           IN  Result(replace_flags_all(
                          h0, [i \in 1..Len(kvs) |-> kvs[i][2]], rec),
                      "", rec)
      [] h[self].cls = "List" ->
           Result(replace_flags_all(h0, List_unwrap_top_level(h, self), rec),
                  "", rec)
      [] OTHER ->
           LET obj == IF h[self].obj = El THEN Fl("ANY") ELSE h[self].obj
           IN  IF obj[1] = "flag"
               THEN Result([h0 EXCEPT ![self].obj = <<"fn", obj[2], rec>>],
                           "", rec)
               ELSE Result([h0 EXCEPT ![self].obj = obj], "", rec)

replace_flags_all(h, ids, rec) ==
    IF ids = <<>> THEN h
    ELSE replace_flags_all(replace_flags(h, Head(ids), rec).h, Tail(ids), rec)

FlagTrees ==
    { D(<< <<"a", Fl("RETURN")>>,
           <<"b", D(<< <<"c", Fl("YIELD")>>, <<"d", Fl("RETURN")>> >>)>>,
           <<"e", Fl("NEVER")>> >>),
      L(<<Fl("ANY"), El, L(<<Fl("YIELD"), S(1)>>)>>) }

\* the tree is wrapped; the caller holds one empty dict of its own
InitFlags ==
    \E v \in FlagTrees :
        /\ heap = Append(BasicFamily(Template_constructor(<<>>, v).h),
                         NewRecorder)
        /\ last = [op |-> "init", self |-> 1, key |-> 0, value |-> NoValue,
                   exc |-> "", ret |-> 1]
        /\ prev = heap
        /\ last2 = last
        /\ prev2 = heap
        /\ used = {}
        /\ copies = {}
        /\ nops = 0
        /\ disk = <<>>
        /\ scope = NoScope
        /\ calls = <<>>
        /\ max_line_width = MAX_LINE_WIDTH

\* replace_flags() on the tree or on a subtree, with no recorder or with a
\* dict the caller holds
ReplaceFlags ==
    /\ nops < MaxFlagOps
    /\ \E self \in Nodes(heap) : \E recorder \in {0} \cup Nodes(heap) :
        /\ ~IsRecorder(heap, self)
        /\ IF heap[self].cls = "Basic" THEN heap[self].obj[1] = "flag"
           ELSE TRUE
        /\ recorder # 0 => IsRecorder(heap, recorder)
        /\ Call("replace_flags", self, recorder, NoValue,
                replace_flags(heap, self, recorder))

\* a converted predicate is called with a value
CallPredicate ==
    /\ nops < MaxFlagOps
    /\ \E self \in Nodes(heap) : \E x \in {S(1), S(2)} :
        /\ heap[self].cls = "Basic"
        /\ heap[self].obj[1] = "fn"
        /\ Call("call", self, heap[self].obj, x,
                predicate(heap, heap[self].obj, x))

NextFlags ==
    \/ ReplaceFlags
    \/ CallPredicate

SpecFlags == InitFlags /\ [][NextFlags]_vars

\* the values the predicates of one flag closing over recorder rec were
\* called with, in call order
CalledWith(flag, rec) ==
    LET cs == SelectSeq(calls,
                  LAMBDA c : c[1][2] = flag /\ c[1][3] = rec)
    IN  [i \in 1..Len(cs) |-> cs[i][2]]

\* C17: a call of a converted ANY returns true and one of NEVER false, and
\* neither changes anything; a call of RETURN or YIELD returns true; in
\* every state a recorder holds under RETURN the value of the first RETURN
\* call made on it and under YIELD the list of the values of all YIELD
\* calls made on it, in call order (and no entry before the first call);
\* every flag a replace_flags(recorder) call converts closes over the
\* recorder the call returns, which is the recorder given if one was given.
C17_FlagPredicates ==
    /\ last.op = "call" =>
          /\ last.ret = (last.key[2] # "NEVER")
          /\ last.key[2] \in {"ANY", "NEVER"} => heap = prev
    /\ \A rec \in Nodes(heap) : IsRecorder(heap, rec) =>
          /\ DictGet(heap[rec].dobj, "RETURN", <<>>) =
                IF CalledWith("RETURN", rec) = <<>> THEN <<>>
                ELSE CalledWith("RETURN", rec)[1]
          /\ DictGet(heap[rec].dobj, "YIELD", <<>>) =
                IF CalledWith("YIELD", rec) = <<>> THEN <<>>
                ELSE L(CalledWith("YIELD", rec))
    /\ last.op = "replace_flags" =>
          /\ last.exc = ""
          /\ last.key # 0 => last.ret = last.key
          /\ last.key = 0 => last.ret = Len(prev) + 1
                             /\ heap[last.ret] = NewRecorder
          /\ \A n \in Desc(prev, last.self) :
                CASE prev[n].cls = "Basic" /\ prev[n].obj = El ->
                       heap[n].obj = <<"fn", "ANY", last.ret>>
                  [] prev[n].cls = "Basic" /\ prev[n].obj[1] = "flag" ->
                       heap[n].obj = <<"fn", prev[n].obj[2], last.ret>>
                  [] OTHER -> heap[n] = prev[n]

\* C17 witness: RETURN was called twice with different values, through two
\* different predicates that share a recorder; the second call changed
\* nothing.
C17_Witness ==
    /\ last.op = "call"
    /\ last.key[2] = "RETURN"
    /\ last2.op = "call"
    /\ last2.key[2] = "RETURN"
    /\ last.self # last2.self
    /\ last.value # last2.value
    /\ last.key[3] = last2.key[3]
    /\ heap = prev

RECURSIVE has_flag(_, _, _)
RECURSIVE has_flag_any(_, _, _)
\* has_flag(flag) of the three classes: BasicWrapper compares its object
\* with the flag, DictBasicWrapper asks `any(k == flag or v.has_flag(flag))`
\* over its items, ListBasicWrapper asks `any(x.has_flag() for x in self)`,
\* a call without the flag argument, which raises TypeError
has_flag(h, self, flag) ==
    CASE h[self].cls = "Dict" ->
           has_flag_any(h, Dict_unwrap_top_level(h, self), flag)
      [] h[self].cls = "List" ->
           IF List_unwrap_top_level(h, self) = <<>> THEN Result(h, "", FALSE)
           ELSE Result(h, "TypeError", FALSE)
      [] OTHER -> Result(h, "", h[self].obj = Fl(flag))

\* any() over the items of a dict, in order, stopping at the first hit
has_flag_any(h, kvs, flag) ==
    IF kvs = <<>> THEN Result(h, "", FALSE)
    ELSE IF Head(kvs)[1] = FlagKey(flag) THEN Result(h, "", TRUE)
    ELSE LET r == has_flag(h, Head(kvs)[2], flag)
         IN  IF r.exc # "" \/ r.ret THEN r
             ELSE has_flag_any(h, Tail(kvs), flag)

HasFlagTrees ==
    FlagTrees \cup
    { D(<< <<"a", D(<< <<"b", Fl("NEVER")>> >>)>> >>),
      D(<< <<FlagKey("ANY"), S(1)>>, <<"b", L(<<>>)>> >>),
      D(<< <<"a", Fl("ANY")>>, <<"b", L(<<S(1)>>)>> >>),
      L(<<S(1), Fl("RETURN")>>) }

InitHasFlag ==
    \E v \in HasFlagTrees :
        /\ heap = BasicFamily(Template_constructor(<<>>, v).h)
        /\ last = [op |-> "init", self |-> 1, key |-> 0, value |-> NoValue,
                   exc |-> "", ret |-> 1]
        /\ prev = heap
        /\ last2 = last
        /\ prev2 = heap
        /\ used = {}
        /\ copies = {}
        /\ nops = 0
        /\ disk = <<>>
        /\ scope = NoScope
        /\ calls = <<>>
        /\ max_line_width = MAX_LINE_WIDTH

HasFlag ==
    /\ nops < MaxOps
    /\ \E self \in Nodes(heap) :
        \E flag \in {"ANY", "NEVER", "RETURN", "YIELD"} :
            Call("has_flag", self, flag, NoValue, has_flag(heap, self, flag))

SpecHasFlag == InitHasFlag /\ [][HasFlag]_vars

\* the Flag is the object of a scalar, or a key of a Mapping, of the tree
FlagAppears(h, self, flag) ==
    \E n \in Desc(h, self) :
        \/ h[n].cls = "Basic" /\ h[n].obj = Fl(flag)
        \/ h[n].cls = "Dict" /\
              \E i \in 1..Len(h[n].dobj) : h[n].dobj[i][1] = FlagKey(flag)

\* C18 (as stated): has_flag(flag) does not raise and returns true exactly
\* when the Flag appears somewhere in the tree, at any depth, under Mapping
\* and Sequence nodes alike.
C18_HasFlagIffAppears ==
    last.op = "has_flag" =>
        /\ last.exc = ""
        /\ last.ret = FlagAppears(heap, last.self, last.key)

\* ------------------------------------------------------------------ match
\* ConfigIOWrapper.match (src/src/iowrapper.py).  A wrapper is modelled by
\* its class and the raw object it keeps; raw scalars are integers
\* <<"s", i>>, strings <<"str", s>> and None, and a class object is
\* <<"class", n>>.
Str(s) == <<"str", s>>

PyNone == <<"NoneType", 0>>

Class(name) == <<"class", name>>

\* the wrappers match is called on
MatchData ==
    { S(5), S(-1), Str("x"), D(<< <<"a", S(5)>> >>), D(<< <<"a", Str("x")>> >>),
      D(<< <<"a", S(5)>>, <<"b", S(-1)>> >>) }

\* the raw templates a caller passes
MatchTemplates ==
    { S(5), Str("x"), Ty("int"), Ty("str"), Fn("positive"),
      D(<< <<"a", Ty("int")>> >>), D(<< <<"a", S(5)>> >>),
      D(<< <<"b", S(-1)>>, <<"a", S(5)>> >>),
      D(<< <<"a", Fn("positive")>> >>), X }

\* ConfigIOWrapper.type(): the class of the raw object
ConfigIOWrapper_type(obj) ==
    CASE obj[1] = "s" -> Class("int")
      [] obj[1] = "str" -> Class("str")
      [] obj[1] = "d" -> Class("dict")
      [] obj[1] = "l" -> Class("list")
      [] obj[1] = "type" -> Class("type")
      [] obj[1] = "fn" -> Class("function")
      [] obj[1] = "NoneType" -> Class("NoneType")

\* isinstance(obj, t) for a raw object and a type object
IsInstance(obj, t) == ConfigIOWrapper_type(obj) = Class(t[2])

\* the call of a unary predicate on an object: "positive" is
\* `lambda x: x > 0`, which raises TypeError on what is not a number, and
\* "is_int" is `lambda x: isinstance(x, int)`
CallFn(fn, obj) ==
    IF fn[2] = "is_int" THEN [exc |-> "", ret |-> obj[1] = "s"]
    ELSE IF obj[1] = "s" THEN [exc |-> "", ret |-> obj[2] > 0]
    ELSE [exc |-> "TypeError", ret |-> FALSE]

RECURSIVE py_eq(_, _)
\* the == of two raw objects (a dict compares without order)
py_eq(a, b) ==
    IF a[1] # b[1] THEN FALSE
    ELSE CASE a[1] = "d" ->
                /\ Len(a[2]) = Len(b[2])
                /\ \A i \in 1..Len(a[2]) : \E j \in 1..Len(b[2]) :
                      /\ a[2][i][1] = b[2][j][1]
                      /\ py_eq(a[2][i][2], b[2][j][2])
           [] a[1] = "l" ->
                /\ Len(a[2]) = Len(b[2])
                /\ \A i \in 1..Len(a[2]) : py_eq(a[2][i], b[2][i])
           [] OTHER -> a[2] = b[2]

\* ConfigTemplate(data) of iowrapper.py: only the class of data is checked
ConfigTemplate_new(data) ==
    IF data = X THEN [exc |-> "TypeError", w |-> None]
    ELSE [exc |-> "", w |-> [cls |-> "ConfigTemplate", obj |-> data]]

\* the match statement of ConfigIOWrapper.match: the subject is a class
\* object and the first four patterns are string literals
match_statement(self, obj, t) ==
    LET subject == ConfigIOWrapper_type(t.obj) IN
    CASE subject = Str("list") -> Result(<<>>, "", 0)
      [] subject = Str("dict") -> Result(<<>>, "", 0)
      [] subject = Str("type") ->
            Result(<<>>, "", IF IsInstance(obj, t.obj) THEN self ELSE 0)
      [] subject = Str("function") ->
            LET c == CallFn(t.obj, obj) IN
            Result(<<>>, c.exc, IF c.exc = "" /\ c.ret THEN self ELSE 0)
      [] OTHER -> Result(<<>>, "", IF py_eq(obj, t.obj) THEN self ELSE 0)

\* self.match(template): template is a raw value or a wrapper object; the
\* result is self, or 0 for None
ConfigIOWrapper_match(h, self, template) ==
    LET r ==
        IF h[self].cls = "ConfigTemplate" THEN Result(<<>>, "TypeError", 0)
        ELSE IF template[1] = "wrapper"
        THEN IF template[2].cls # "ConfigTemplate"
             THEN Result(<<>>, "TypeError", 0)
             ELSE match_statement(self, h[self].obj, template[2])
        ELSE LET t == ConfigTemplate_new(template) IN
             IF t.exc # "" THEN Result(<<>>, t.exc, 0)
             ELSE match_statement(self, h[self].obj, t.w)
    IN Result(h, r.exc, r.ret)

\* what a caller passes to match
MatchArgs ==
    MatchTemplates \cup
    { <<"wrapper", [cls |-> "ConfigTemplate", obj |-> Ty("int")]>>,
      <<"wrapper", [cls |-> "ConfigIOWrapper", obj |-> S(5)]>> }

InitMatch ==
    \E obj \in MatchData \cup {Ty("int")} :
        /\ heap = << [cls |-> IF obj[1] = "type" THEN "ConfigTemplate"
                              ELSE "ConfigIOWrapper",
                      obj |-> obj] >>
        /\ last = [op |-> "init", self |-> 1, key |-> 0, value |-> NoValue,
                   exc |-> "", ret |-> 1]
        /\ prev = heap
        /\ last2 = last
        /\ prev2 = heap
        /\ used = {}
        /\ copies = {}
        /\ nops = 0
        /\ disk = <<>>
        /\ scope = NoScope
        /\ calls = <<>>
        /\ max_line_width = MAX_LINE_WIDTH

Match ==
    /\ nops < MaxOps
    /\ \E template \in MatchArgs :
          Call("match", 1, template, NoValue,
               ConfigIOWrapper_match(heap, 1, template))

SpecMatch == InitMatch /\ [][Match]_vars

RECURSIVE Matches(_, _)
\* the matching relation of a raw object and a raw template: a type by
\* isinstance, a predicate by its truthy result, a plain scalar by equality,
\* a Mapping by every template entry matching the entry under the same key
Matches(obj, t) ==
    CASE t[1] = "type" -> IsInstance(obj, t)
      [] t[1] = "fn" -> CallFn(t, obj).exc = "" /\ CallFn(t, obj).ret
      [] t[1] = "d" ->
            /\ obj[1] = "d"
            /\ \A i \in 1..Len(t[2]) : \E j \in 1..Len(obj[2]) :
                  /\ obj[2][j][1] = t[2][i][1]
                  /\ Matches(obj[2][j][2], t[2][i][2])
      [] OTHER -> py_eq(obj, t)

\* C19 (as stated): matching a concrete node against a valid template
\* returns the node exactly when the template matches it: a type by
\* isinstance, a predicate by its truthy result, a plain scalar by equality,
\* a Mapping entry by entry; so {'a': int} matches {'a': 5} and not
\* {'a': 'x'}.
C19_MatchIffMatches ==
    (/\ last.op = "match"
     /\ heap[1].cls = "ConfigIOWrapper"
     /\ last.key \in MatchTemplates \ {X}) =>
        /\ last.exc \in {"", "TypeError"}
        /\ (last.ret = 1) = Matches(heap[1].obj, last.key)

\* ------------------------------------------------------------------- fill
\* ConfigTemplate.fill and DictConfigTemplate.fill
\* (src/src/cfgtools/templatelib.py) on raw values: the template is a raw
\* template value, the wrapper the raw value of an existing config object
\* or NoValue for None, and the result the raw value of the object built by
\* `constructor`.  The keys of these Mappings are raw scalars.
FillResult(exc, ret) == [exc |-> exc, ret |-> ret]

\* constructor(k).match(kt) of the config class on a key and a template
\* key: a type by isinstance, a predicate by its call on the raw key, a
\* plain scalar by equality
constructor_match(k, kt) ==
    CASE kt[1] = "type" -> FillResult("", IsInstance(k, kt))
      [] kt[1] = "fn" -> FillResult(CallFn(kt, k).exc, CallFn(kt, k).ret)
      [] OTHER -> FillResult("", py_eq(k, kt))

\* self.__obj() for a type object
Default(t) ==
    CASE t[2] = "int" -> S(0)
      [] t[2] = "str" -> Str("")

\* ConfigTemplate.fill (a scalar template); the predicate is called on the
\* wrapper object
ConfigTemplate_fill(t, w) ==
    CASE t[1] = "type" ->
            IF w # NoValue /\ IsInstance(w, t) THEN FillResult("", w)
            ELSE FillResult("", Default(t))
      [] t[1] = "fn" ->
            IF w = NoValue THEN FillResult("", PyNone)
            ELSE LET c == CallFn(t, <<"wrapper", w>>) IN
                 IF c.exc # "" THEN FillResult(c.exc, NoValue)
                 ELSE IF c.ret THEN FillResult("", w)
                 ELSE FillResult("", PyNone)
      [] OTHER -> IF w = NoValue THEN FillResult("", t) ELSE FillResult("", w)

RECURSIVE first_match(_, _, _)
\* the inner loop of DictConfigTemplate.fill: the position of the first
\* existing item whose key matches kt, 0 when the loop ends without break
first_match(kt, witems, j) ==
    IF j > Len(witems) THEN FillResult("", 0)
    ELSE LET m == constructor_match(witems[j][1], kt) IN
         IF m.exc # "" THEN FillResult(m.exc, 0)
         ELSE IF m.ret THEN FillResult("", j)
         ELSE first_match(kt, witems, j + 1)

RECURSIVE fill(_, _)
RECURSIVE fill_items(_, _, _, _)
RECURSIVE fill_elements(_, _, _, _)
\* variant: the result starts from the existing items
DictConfigTemplate_fill_merging(t, w) ==
    IF w = NoValue THEN FillResult("AttributeError", NoValue)
    ELSE fill_items(t[2], IF w[1] = "d" THEN w[2] ELSE <<>>, 1,
                    IF w[1] = "d" THEN w[2] ELSE <<>>)

\* DictConfigTemplate.fill: None has no isinstance(); against what is not a
\* Mapping every item is filled fresh, which the loop does on no items
DictConfigTemplate_fill(t, w) ==
    IF w = NoValue THEN FillResult("AttributeError", NoValue)
    ELSE fill_items(t[2], IF w[1] = "d" THEN w[2] ELSE <<>>, 1, <<>>)

\* the outer loop of DictConfigTemplate.fill from template item i on
fill_items(titems, witems, i, new_data) ==
    IF i > Len(titems) THEN FillResult("", D(new_data))
    ELSE LET kt == titems[i][1]
             vt == titems[i][2]
             m  == first_match(kt, witems, 1)
         IN  IF m.exc # "" THEN FillResult(m.exc, NoValue)
             ELSE IF m.ret > 0
             THEN LET f == fill(vt, witems[m.ret][2]) IN
                  IF f.exc # "" THEN f
                  ELSE fill_items(titems, witems, i + 1,
                                  DictSet(new_data, witems[m.ret][1], f.ret))
             ELSE LET fk == ConfigTemplate_fill(kt, NoValue)
                      fv == fill(vt, NoValue)
                  IN  IF fk.exc # "" THEN fk
                      ELSE IF fv.exc # "" THEN fv
                      ELSE fill_items(titems, witems, i + 1,
                                      DictSet(new_data, fk.ret, fv.ret))

\* ListConfigTemplate.fill: None has no isinstance(); against what is not a
\* Sequence every element is filled fresh, which the loop does on no
\* elements
ListConfigTemplate_fill(t, w) ==
    IF w = NoValue THEN FillResult("AttributeError", NoValue)
    ELSE fill_elements(t[2], IF w[1] = "l" THEN w[2] ELSE <<>>, 1, <<>>)

\* the loop of ListConfigTemplate.fill from template position i on
fill_elements(telems, welems, i, new_data) ==
    IF i > Len(telems) THEN FillResult("", L(new_data))
    ELSE LET f == IF i <= Len(welems) THEN fill(telems[i], welems[i])
                  ELSE fill(telems[i], NoValue)
         IN  IF f.exc # "" THEN f
             ELSE fill_elements(telems, welems, i + 1, Append(new_data, f.ret))

\* template.fill(constructor, wrapper)
fill(t, w) ==
    CASE t[1] = "d" -> DictConfigTemplate_fill(t, w)
      [] t[1] = "l" -> ListConfigTemplate_fill(t, w)
      [] OTHER -> ConfigTemplate_fill(t, w)

FillTemplates ==
    { D(<< <<Str("a"), Ty("int")>>, <<Str("b"), S(1)>> >>),
      D(<< <<Ty("int"), Ty("str")>>, <<Str("a"), S(1)>> >>),
      D(<< <<Fn("is_int"), Ty("int")>> >>),
      D(<< <<Str("a"), D(<< <<Str("c"), Ty("int")>> >>)>> >>),
      D(<< <<Ty("str"), Ty("int")>>, <<Str("a"), Ty("str")>> >>),
      L(<<Ty("int"), S(1), Ty("str")>>),
      L(<<Ty("int"), D(<< <<Str("a"), Ty("int")>> >>)>>) }

FillWrappers ==
    { NoValue, S(5), D(<<>>),
      D(<< <<Str("a"), S(5)>>, <<Str("z"), S(7)>> >>),
      D(<< <<S(3), Str("x")>>, <<Str("a"), Str("y")>> >>),
      D(<< <<PyNone, Str("x")>> >>),
      D(<< <<Str("a"), D(<< <<Str("c"), S(2)>>, <<Str("d"), S(3)>> >>)>> >>),
      L(<<S(7)>>), L(<<S(7), D(<<>>)>>) }

InitFill ==
    \E t \in FillTemplates :
        /\ heap = << [cls |-> IF t[1] = "d" THEN "DictConfigTemplate"
                              ELSE "ListConfigTemplate",
                      obj |-> t] >>
        /\ last = [op |-> "init", self |-> 1, key |-> 0, value |-> NoValue,
                   exc |-> "", ret |-> 1]
        /\ prev = heap
        /\ last2 = last
        /\ prev2 = heap
        /\ used = {}
        /\ copies = {}
        /\ nops = 0
        /\ disk = <<>>
        /\ scope = NoScope
        /\ calls = <<>>
        /\ max_line_width = MAX_LINE_WIDTH

Fill ==
    /\ nops < MaxOps
    /\ \E w \in FillWrappers :
          LET r == fill(heap[1].obj, w) IN
          Call("fill", 1, w, NoValue, Result(heap, r.exc, r.ret))

SpecFill == InitFill /\ [][Fill]_vars

\* the key matches the template key
KeyMatches(k, kt) ==
    constructor_match(k, kt).exc = "" /\ constructor_match(k, kt).ret

\* a fill of a Mapping template against an existing Mapping has returned
FilledMapping ==
    /\ last.op = "fill"
    /\ last.exc = ""
    /\ heap[1].obj[1] = "d"
    /\ last.key[1] = "d"

\* entry e of the result has an existing key that matches a template key,
\* and its value is that template value filled from the existing value
FromExisting(t, w, r, e) ==
    \E i \in 1..Len(t[2]) : \E j \in 1..Len(w[2]) :
        /\ r[2][e][1] = w[2][j][1]
        /\ KeyMatches(w[2][j][1], t[2][i][1])
        /\ r[2][e][2] = fill(t[2][i][2], w[2][j][2]).ret

\* entry e of the result is a template item filled fresh, key and value
FromTemplate(t, r, e) ==
    \E i \in 1..Len(t[2]) :
        /\ r[2][e][1] = ConfigTemplate_fill(t[2][i][1], NoValue).ret
        /\ r[2][e][2] = fill(t[2][i][2], NoValue).ret

\* existing key j matches no template key
Uncovered(t, w, j) ==
    \A i \in 1..Len(t[2]) : ~KeyMatches(w[2][j][1], t[2][i][1])

C21_FreshFill ==
    last.op = "fill" =>
        LET t == heap[1].obj
            w == last.key
        IN  /\ w = NoValue =>
                  /\ last.exc = ""
                  /\ last.ret[1] = t[1]
                  /\ Len(last.ret[2]) = Len(t[2])
            /\ (t[1] = "l" /\ w[1] = "l" /\ Len(w[2]) < Len(t[2])) =>
                  /\ last.exc = ""
                  /\ last.ret[1] = "l"
                  /\ Len(last.ret[2]) = Len(t[2])
                  /\ \A i \in (Len(w[2]) + 1)..Len(t[2]) :
                        last.ret[2][i] = fill(t[2][i], NoValue).ret

\* -------------------------------------------------------- text rendering
\* repr() under a configured max line width (src/src/cfgtools/basic.py):
\* the module variable MAX_LINE_WIDTH is set before the tree is built.
Widths == {6, 12, 14, 16, MAX_LINE_WIDTH}

ReprTrees ==
    { D(<< <<"a", S(1)>>, <<"b", S(2)>> >>),
      D(<< <<"a", D(<< <<"b", L(<<S(1), S(2)>>)>> >>)>>,
           <<"b", L(<<D(<<>>), S(5)>>)>> >>),
      L(<<S(1), L(<<S(2), L(<<S(3)>>)>>)>>),
      D(<< <<"a", S(12345)>> >>),
      L(<<S(1), S(2), S(12345678)>>) }

InitRepr ==
    \E v \in ReprTrees : \E width \in Widths :
        /\ heap = constructor(<<>>, v).h
        /\ last = [op |-> "init", self |-> 1, key |-> 0, value |-> NoValue,
                   exc |-> "", ret |-> 1]
        /\ prev = heap
        /\ last2 = last
        /\ prev2 = heap
        /\ used = {}
        /\ copies = {}
        /\ nops = 0
        /\ disk = <<>>
        /\ scope = NoScope
        /\ calls = <<>>
        /\ max_line_width = width

\* repr(root): the normal text
Repr ==
    /\ nops < MaxOps
    /\ Call("repr", 1, 0, NoValue, Result(heap, "", repr(heap, 1, 0, FALSE)))

\* root.view_change(): the change-view text
ViewChange ==
    /\ nops < MaxOps
    /\ Call("view_change", 1, 0, NoValue, Result(heap, "", view_change(heap, 1)))

NextRepr ==
    \/ Repr
    \/ ViewChange
    \/ DelItem

SpecRepr == InitRepr /\ [][NextRepr]_vars

RECURSIVE Lines(_)
\* text.split("\n")
Lines(text) ==
    IF \A i \in 1..Len(text) : text[i] # "\n" THEN <<text>>
    ELSE LET p == CHOOSE i \in 1..Len(text) :
                      /\ text[i] = "\n"
                      /\ \A j \in 1..(i - 1) : text[j] # "\n"
         IN  <<SubSeq(text, 1, p - 1)>> \o Lines(SubSeq(text, p + 1, Len(text)))

\* the number of characters of the line that are in chars
Count(line, chars) == Cardinality({i \in 1..Len(line) : line[i] \in chars})

\* the number of leading spaces of the line
Indent(line) ==
    IF \A i \in 1..Len(line) : line[i] = " " THEN Len(line)
    ELSE (CHOOSE i \in 1..Len(line) :
              /\ line[i] # " "
              /\ \A j \in 1..(i - 1) : line[j] = " ") - 1

RECURSIVE Depth(_, _)
\* the nesting level after the first n lines: brackets opened and not closed
Depth(lines, n) ==
    IF n = 0 THEN 0
    ELSE Depth(lines, n - 1) + Count(lines[n], {"{", "["})
             - Count(lines[n], {"}", "]"})

\* line i starts, after its indent, with a closing bracket
Closes(line) ==
    /\ Indent(line) < Len(line)
    /\ line[Indent(line) + 1] \in {"}", "]"}

\* the text is a multi-line form: an opening bracket, child lines indented
\* 4 spaces per nesting level, each closing bracket at the indent of the
\* level that encloses it, the last one at indent 0
MultiLine(text) ==
    LET lines == Lines(text)
        n == Len(lines)
    IN  /\ n >= 3
        /\ lines[1] \in {<<"{">>, <<"[">>}
        /\ lines[n] \in {<<"}">>, <<"]">>}
        /\ \A i \in 2..n :
              \/ lines[i] = <<>>
              \/ Indent(lines[i]) =
                    4 * (IF Closes(lines[i]) THEN Depth(lines, i - 1) - 1
                         ELSE Depth(lines, i - 1))

ReprLines == Lines(last.ret)

\* C23 (as stated): every line of the normal text rendering of a tree is
\* at most the max line width long.
C23_LinesWithinWidth ==
    last.op = "repr" =>
        \A i \in 1..Len(ReprLines) : Len(ReprLines[i]) <= max_line_width

\* C23 (amended): a line of the normal text rendering is longer than the max
\* line width only when it holds a single item that does not fit after its
\* indent: one scalar entry, or one bracket with its key.  Entries are
\* joined on one line, and a container is kept flat on a line, only within
\* the max line width.
C23_LongLinesHoldOneItem ==
    last.op = "repr" =>
        \A i \in 1..Len(ReprLines) :
            Len(ReprLines[i]) > max_line_width =>
                /\ Len(ReprLines) > 1
                /\ Count(ReprLines[i], {","}) <= 1
                /\ Count(ReprLines[i], {"{", "[", "}", "]"}) <= 1

\* C23 witness: a multi-line rendering with a line of several entries and a
\* flat container on a line, all within the width, and another with a line
\* longer than the width
C23_Witness ==
    /\ last.op = "repr"
    /\ \E i \in 1..Len(ReprLines) :
          /\ Count(ReprLines[i], {","}) >= 2
          /\ Len(ReprLines[i]) <= max_line_width
    /\ \E i \in 1..Len(ReprLines) : Len(ReprLines[i]) > max_line_width

\* no wrapper object of the heap carries a status
NoStatus(h) == \A n \in 1..Len(h) : h[n].status = ""

\* C29 (as stated): for a tree in which no node carries a status, the
\* change-view text is the normal text at every max line width: the flat
\* length computed in change-view mode is the length of the flat string, and
\* both renderings are the same text.
C29_ChangeViewIsNormal ==
    (last.op \in {"repr", "view_change"} /\ NoStatus(heap)) =>
        /\ repr_flat(heap, 1, TRUE).len = Len(repr_flat(heap, 1, TRUE).string)
        /\ view_change(heap, 1) = repr(heap, 1, 0, FALSE)

\* C26 (as stated): membership excludes deleted entries and is otherwise
\* exact: `k in node` of a Mapping is true exactly when k is a key whose
\* entry is present, and `v in node` of a Sequence is true exactly when some
\* present element has a value equal to the plain value v.
C26_MembershipExact ==
    \A n \in Nodes(heap) :
        /\ heap[n].cls = "Dict" =>
              \A k \in DictKeys :
                  Dict_contains(heap, n, k) <=>
                      \E i \in 1..Len(heap[n].dobj) :
                          /\ heap[n].dobj[i][1] = k
                          /\ is_present(heap, heap[n].dobj[i][2])
        /\ heap[n].cls = "List" =>
              \A v \in PlainValues \cup {S(1)} :
                  List_contains(heap, n, v) <=>
                      \E i \in 1..Len(heap[n].lobj) :
                          /\ is_present(heap, heap[n].lobj[i])
                          /\ PyEq(unwrap(heap, heap[n].lobj[i]), v)

\* C27 (as stated): after any appends, extends and deletes the index view
\* and the iteration view of a Sequence agree: for every i with
\* 0 <= i < len(seq), get(i) succeeds and returns the i-th element that
\* iterating seq produces, which is the i-th element of unwrap_top_level().
C27_IndexAgreesWithIteration ==
    \A n \in Nodes(heap) :
        heap[n].cls = "List" =>
            \A i \in 0..(len(heap, n) - 1) :
                /\ List_getitem(heap, n, i).exc = ""
                /\ List_getitem(heap, n, i).ret = iter(heap, n)[i + 1]
                /\ iter(heap, n)[i + 1] = List_unwrap_top_level(heap, n)[i + 1]

\* --------------------------------------------- set with a stored wrapper
\* the wrapper objects a container of the tree stores, apart from those
\* that contain self
StoredValuesFor(h, self) ==
    { <<"node", m>> :
          m \in { c \in Nodes(h) :
                     /\ self \notin Desc(h, c)
                     /\ \E q \in Nodes(h) : c \in Children(h, q) } }

\* node[key] = value with a value that is already stored in the tree
SetStored ==
    /\ nops < MaxOps
    /\ \E self \in Nodes(heap) : \E key \in KeysOf(heap, self) :
        \E value \in StoredValuesFor(heap, self) :
            Call("set", self, key, value, setitem(heap, self, key, value))

NextSetStored ==
    \/ SetItem
    \/ SetStored
    \/ DelItem

SpecSetStored == Init /\ [][NextSetStored]_vars

\* the plain value of the argument of the last call, as it was at the call
ValueGiven ==
    IF IsNode(last.value) THEN unwrap(prev, last.value[2]) ELSE last.value

\* C28 (as stated): after set(k, x) on a Mapping succeeds, k is present and
\* get(k).unwrap() is the value of x, whether x is a plain value, a fresh
\* Node or a Node already stored in the tree, the one stored under k
\* included.
C28_SetThenGet ==
    (last.op = "set" /\ last.exc = "" /\ heap[last.self].cls = "Dict") =>
        /\ Dict_contains(heap, last.self, last.key)
        /\ Dict_getitem(heap, last.self, last.key).exc = ""
        /\ PyEq(unwrap(heap, Dict_getitem(heap, last.self, last.key).ret),
                ValueGiven)

\* ---------------------------------------------------- the factory config()
\* config(obj=None) of src/src/core.py returns ConfigIOWrapper(obj)
\* (src/src/iowrapper.py).  A wrapper is its class and the raw value of
\* to_object().
MaxConfigOps == 3

\* ConfigIOWrapper.__new__ + __init__: the class is chosen by the type of
\* data, and None is one of the valid scalar types
ConfigIOWrapper_new(data) ==
    CASE data[1] = "d" ->
           [exc |-> "", w |-> [cls |-> "_DictConfigIOWrapper", obj |-> data]]
      [] data[1] = "l" ->
           [exc |-> "", w |-> [cls |-> "_ListConfigIOWrapper", obj |-> data]]
      [] data[1] \in {"s", "str", "NoneType"} ->
           [exc |-> "", w |-> [cls |-> "ConfigIOWrapper", obj |-> data]]
      [] OTHER -> [exc |-> "TypeError", w |-> None]

\* config(obj): obj is NoValue when the argument is left out
config(obj) == ConfigIOWrapper_new(IF obj = NoValue THEN PyNone ELSE obj)

\* wrapper[key] = value, for a scalar value
ConfigIOWrapper_setitem(h, self, key, value) ==
    IF h[self].cls # "_DictConfigIOWrapper" THEN Result(h, "TypeError", 0)
    ELSE IF ConfigIOWrapper_new(value).exc # ""
    THEN Result(h, ConfigIOWrapper_new(value).exc, 0)
    ELSE Result([h EXCEPT ![self].obj = D(DictSet(@[2], key, value))], "", 0)

ConfigArgs ==
    { NoValue, PyNone, D(<<>>), D(<< <<Str("a"), S(5)>> >>), S(5), L(<<>>), X }

InitConfig ==
    /\ heap = <<>>
    /\ last = [op |-> "init", self |-> 0, key |-> 0, value |-> NoValue,
               exc |-> "", ret |-> 0]
    /\ prev = heap
    /\ last2 = last
    /\ prev2 = heap
    /\ used = {}
    /\ copies = {}
    /\ nops = 0
    /\ disk = <<>>
    /\ scope = NoScope
    /\ calls = <<>>
    /\ max_line_width = MAX_LINE_WIDTH

\* w = config(obj)
Config ==
    /\ nops < MaxConfigOps
    /\ \E obj \in ConfigArgs :
          LET r == config(obj) IN
          Call("config", 0, obj, NoValue,
               IF r.exc # "" THEN Result(heap, r.exc, 0)
               ELSE Result(Append(heap, r.w), "", Len(heap) + 1))

\* w[key] = value
ConfigSetItem ==
    /\ nops < MaxConfigOps
    /\ \E self \in 1..Len(heap) : \E key \in {Str("a"), Str("k")} :
          \E value \in {S(1), X} :
              Call("set", self, key, value,
                   ConfigIOWrapper_setitem(heap, self, key, value))

NextConfig ==
    \/ Config
    \/ ConfigSetItem

SpecConfig == InitConfig /\ [][NextConfig]_vars

\* C25 (as stated): config() and config(None) return a Mapping node whose
\* unwrapped value is the empty mapping, so that a set can be applied to it
\* directly.
C25_ConfigDefaultIsEmptyMapping ==
    (last.op = "config" /\ last.key \in {NoValue, PyNone}) =>
        /\ last.exc = ""
        /\ heap[last.ret].cls = "_DictConfigIOWrapper"
        /\ heap[last.ret].obj = D(<<>>)
        /\ ConfigIOWrapper_setitem(heap, last.ret, Str("k"), S(1)).exc = ""

\* -------------------------------------------------------- the HTML tree
\* HTMLTreeMaker of src/src/utils/htmltree.py.  A node is its value and the
\* list of its children (ids in heap, in the order they were added).
MaxTreeOps == 4

TreeValues == {"a", "b"}

TreeIndices == {-2, -1, 0, 1, 5}

HTMLTreeMaker_new(value) ==
    [cls |-> "HTMLTreeMaker", val |-> value, children |-> <<>>]

\* the position (number of elements before it) a Python slice bound denotes
\* in a list of length n: a negative bound counts from the end, and bounds
\* outside the list are clipped
SliceBound(n, index) ==
    IF index < 0 THEN (IF n + index < 0 THEN 0 ELSE n + index)
    ELSE IF index > n THEN n ELSE index

\* list[:index]
SliceTo(list, index) == SubSeq(list, 1, SliceBound(Len(list), index))

\* list[index:]
SliceFrom(list, index) ==
    SubSeq(list, SliceBound(Len(list), index) + 1, Len(list))

\* HTMLTreeMaker.add(value) for a string value: a new node is appended
HTMLTreeMaker_add(h, self, value) ==
    LET h1 == Append(h, HTMLTreeMaker_new(value)) IN
    Result([h1 EXCEPT ![self].children = Append(@, Len(h1))], "", 0)

\* HTMLTreeMaker.discard(index):
\* self.__children = self.__children[:index] + self.__children[index:]
HTMLTreeMaker_discard(h, self, index) ==
    Result([h EXCEPT ![self].children =
                SliceTo(@, index) \o SliceFrom(@, index)], "", 0)

\* HTMLTreeMaker.get(index): self.__children[index]
HTMLTreeMaker_get(h, self, index) ==
    LET n == Len(h[self].children) IN
    IF index >= n \/ index < -n THEN Result(h, "IndexError", 0)
    ELSE Result(h, "", h[self].children[(IF index < 0 THEN n + index
                                         ELSE index) + 1])

InitHtml ==
    /\ heap = <<HTMLTreeMaker_new("root")>>
    /\ last = [op |-> "init", self |-> 1, key |-> 0, value |-> NoValue,
               exc |-> "", ret |-> 1]
    /\ prev = heap
    /\ last2 = last
    /\ prev2 = heap
    /\ used = {}
    /\ copies = {}
    /\ nops = 0
    /\ disk = <<>>
    /\ scope = NoScope
    /\ calls = <<>>
    /\ max_line_width = MAX_LINE_WIDTH

TreeAdd ==
    /\ nops < MaxTreeOps
    /\ \E self \in 1..Len(heap) : \E value \in TreeValues :
          Call("add", self, value, NoValue,
               HTMLTreeMaker_add(heap, self, value))

TreeDiscard ==
    /\ nops < MaxTreeOps
    /\ \E self \in 1..Len(heap) : \E index \in TreeIndices :
          Call("discard", self, index, NoValue,
               HTMLTreeMaker_discard(heap, self, index))

NextHtml ==
    \/ TreeAdd
    \/ TreeDiscard

SpecHtml == InitHtml /\ [][NextHtml]_vars

\* the list without the element a valid index denotes
WithoutChild(list, index) ==
    LET k == (IF index < 0 THEN Len(list) + index ELSE index) + 1 IN
    SubSeq(list, 1, k - 1) \o SubSeq(list, k + 1, Len(list))

\* C30 (as stated): after discard(index) with an index that denotes a child,
\* the node has one child fewer, the child formerly at that index is gone,
\* and the remaining children keep their order.
C30_DiscardRemovesChild ==
    (/\ last.op = "discard"
     /\ HTMLTreeMaker_get(prev, last.self, last.key).exc = "") =>
        /\ Len(heap[last.self].children) =
               Len(prev[last.self].children) - 1
        /\ \A i \in 1..Len(heap[last.self].children) :
               heap[last.self].children[i] #
                   HTMLTreeMaker_get(prev, last.self, last.key).ret
        /\ heap[last.self].children =
               WithoutChild(prev[last.self].children, last.key)

\* ------------------------------------------------------- the INI format
\* to_ini_dict (src/src/tpl.py), to_ini (src/src/saver.py) and read_ini
\* (src/src/reading.py).  A wrapper is its class and the value of unwrap();
\* a file on disk is its path and the sections the parser wrote, each a
\* mapping from option names to strings; `saved` remembers the value whose
\* save wrote the file.
MaxIniOps == 3

\* json.dumps(y): a string, the JSON text of y
json_dumps(y) == <<"json", y>>

\* _obj_restore(string): json.loads(string), and the string itself when it
\* is no JSON text
_obj_restore(string) == IF string[1] = "json" THEN string[2] ELSE string

\* {k: json.dumps(v) for k, v in items}
DumpValues(kvs) ==
    [i \in 1..Len(kvs) |-> <<kvs[i][1], json_dumps(kvs[i][2])>>]

\* ConfigTemplate.to_ini_dict
to_ini_dict(obj) ==
    IF obj[1] = "d"
    THEN IF \A i \in 1..Len(obj[2]) : obj[2][i][2][1] = "d"
         THEN D([i \in 1..Len(obj[2]) |->
                    <<obj[2][i][1], D(DumpValues(obj[2][i][2][2]))>>])
         ELSE D(<< <<Str("null"), D(DumpValues(obj[2]))>> >>)
    ELSE D(<< <<Str("null"),
                D(<< <<Str("null"), json_dumps(obj)>> >>)>> >>)

\* ConfigParser.optionxform: option names are stored in lower case
optionxform(key) == IF key = Str("A") THEN Str("a") ELSE key

\* parser.read_dict(dictionary); parser.write(f): the sections and their
\* options in order, option names passed through optionxform
ConfigParser_write(dictionary) ==
    [i \in 1..Len(dictionary[2]) |->
        <<dictionary[2][i][1],
          [j \in 1..Len(dictionary[2][i][2][2]) |->
              <<optionxform(dictionary[2][i][2][2][j][1]),
                dictionary[2][i][2][2][j][2]>>]>>]

\* ConfigSaver.to_ini
to_ini(obj) == ConfigParser_write(to_ini_dict(obj))

\* read_ini: every option restored, then a single section "null" and in it
\* a single option "null" are unwrapped
read_ini(sections) ==
    LET obj == D([i \in 1..Len(sections) |->
                    <<sections[i][1],
                      D([j \in 1..Len(sections[i][2]) |->
                            <<sections[i][2][j][1],
                              _obj_restore(sections[i][2][j][2])>>])>>])
        inner == obj[2][1][2]
    IN  IF Len(obj[2]) = 1 /\ obj[2][1][1] = Str("null")
        THEN IF Len(inner[2]) = 1 /\ inner[2][1][1] = Str("null")
             THEN inner[2][1][2]
             ELSE inner
        ELSE obj

\* JSON-safe values: scalars, lists, mappings with string keys, nested
IniValues ==
    { S(5), Str("x"), PyNone, L(<<S(1)>>), D(<<>>),
      D(<< <<Str("a"), S(5)>> >>),
      D(<< <<Str("a"), D(<< <<Str("b"), S(1)>> >>)>> >>),
      D(<< <<Str("a"), D(<<>>)>>, <<Str("b"), S(5)>> >>),
      D(<< <<Str("a"), D(<< <<Str("null"), S(5)>> >>)>> >>),
      D(<< <<Str("a"), L(<<S(1), D(<< <<Str("null"), S(2)>> >>)>>)>> >>),
      D(<< <<Str("a"), D(<< <<Str("b"), S(1)>> >>)>>,
           <<Str("null"), D(<< <<Str("c"), S(2)>> >>)>> >>),
      D(<< <<Str("null"), S(5)>> >>),
      D(<< <<Str("null"), D(<< <<Str("a"), S(1)>> >>)>> >>),
      D(<< <<Str("null"), D(<< <<Str("null"), S(5)>> >>)>> >>),
      D(<< <<Str("A"), S(1)>> >>) }

IniPaths == {"a.ini", "b.ini"}

InitIni ==
    \E v \in IniValues :
        /\ heap = <<ConfigIOWrapper_new(v).w>>
        /\ last = [op |-> "init", self |-> 1, key |-> 0, value |-> NoValue,
                   exc |-> "", ret |-> 1]
        /\ prev = heap
        /\ last2 = last
        /\ prev2 = heap
        /\ used = {}
        /\ copies = {}
        /\ nops = 0
        /\ disk = <<>>
        /\ scope = NoScope
        /\ calls = <<>>
        /\ max_line_width = MAX_LINE_WIDTH

IniCall(op, self, key, h, d, ret) ==
    /\ heap' = h
    /\ disk' = d
    /\ last' = [op |-> op, self |-> self, key |-> key, value |-> NoValue,
                exc |-> "", ret |-> ret]
    /\ prev' = heap
    /\ last2' = last
    /\ prev2' = prev
    /\ used' = used \cup {op}
    /\ nops' = nops + 1
    /\ UNCHANGED <<copies, scope, calls, max_line_width>>

\* the files on disk other than the one at path
OtherFiles(d, path) == SelectSeq(d, LAMBDA f : f.path # path)

\* w.to_ini(path)
ToIni ==
    /\ nops < MaxIniOps
    /\ \E self \in 1..Len(heap) : \E path \in IniPaths :
          IniCall("to_ini", self, path, heap,
                  Append(OtherFiles(disk, path),
                         [path |-> path, sections |-> to_ini(heap[self].obj),
                          saved |-> heap[self].obj]),
                  0)

\* w = read_ini(path)
ReadIni ==
    /\ nops < MaxIniOps
    /\ \E i \in 1..Len(disk) :
          IniCall("read_ini", 0, disk[i].path,
                  Append(heap, ConfigIOWrapper_new(read_ini(disk[i].sections)).w),
                  disk, Len(heap) + 1)

NextIni ==
    \/ ToIni
    \/ ReadIni

SpecIni == InitIni /\ [][NextIni]_vars

\* the file read_ini has just read
FileRead == CHOOSE f \in Range(disk) : f.path = last.key

\* C24 (as stated, INI): loading what the save of a JSON-safe value v wrote
\* yields v, also for mappings with a single key "null".
C24_IniRoundTrip ==
    last.op = "read_ini" => heap[last.ret].obj = FileRead.saved

====
